---- MODULE Spec2Model ----
(***************************************************************************)
(* RemoteDesktop: PIN / session authentication (src/auth.js), the HTTP     *)
(* auth API (server.js, server-webrtc.js), the WebRTC signaling broker     *)
(* (server-webrtc.js), the screenshot frame streamer (src/websocket.js)    *)
(* and the signaling server class (src/signaling.js).                      *)
(***************************************************************************)
EXTENDS Integers, Sequences, FiniteSets, TLC

(***************************************************************************)
(* Bounds of the exploration (not program constants).                      *)
(***************************************************************************)
MaxTokens == 2
MaxLogins == 1
MaxConns == 3
MaxFrames == 2
MaxPending == 2

(***************************************************************************)
(* Program constants.                                                      *)
(***************************************************************************)
MAX_ATTEMPTS == 5
LOCKOUT_DURATION == 5 * 60 * 1000
SESSION_DURATION == 24 * 60 * 60 * 1000
UNAUTHORIZED == 4001
FRAME_INTERVAL == 33

(***************************************************************************)
(* Values.                                                                 *)
(***************************************************************************)
Null == "null"
Undefined == "<undefined>"
NoHeader == <<>>
NoEntry == [count |-> 0, lockedUntil |-> 0]
NoSession == [createdAt |-> -1, ip |-> Null]
NoToken == 0
NoConn == 0
NoTimer == 0

LocalAddrs == {"127.0.0.1", "::1", "::ffff:127.0.0.1"}
SocketAddrs == {"127.0.0.1", "192.168.1.20"}
XffValues == {NoHeader, <<"127.0.0.1">>}
ForwardedValues == XffValues \cup {<<"192.168.1.20", "127.0.0.1">>}
Addrs == SocketAddrs \cup {Head(xff) : xff \in ForwardedValues \ {NoHeader}}

Pins == {"100000", "999999"}
Candidates == Pins \cup {Undefined}
Tokens == 1..MaxTokens
Conns == 1..MaxConns
Modes == {"webrtc", "screenshot"}
\* The instants at which the clock is read: process start, the expiry of a
\* lockout and of a session begun at start, and one millisecond after each.
Times == {0, 1, LOCKOUT_DURATION, LOCKOUT_DURATION + 1,
          SESSION_DURATION, SESSION_DURATION + 1}

VARIABLES
    currentPin,      \* auth.js: currentPin
    pinHash,         \* auth.js: pinHash
    sessions,        \* auth.js: sessions, token -> { createdAt, ip }
    attemptTracker,  \* auth.js: attemptTracker, ip -> { count, lockedUntil }
    now,             \* Date.now(), milliseconds since process start
    nextToken,       \* tokens 1..nextToken-1 have been minted by randomBytes
    hist,            \* history: per address consecutive failures, per token issue
                     \* time, per viewer connection the index it registered with;
                     \* and, as hist.observed says, per connection its token and
                     \* what it was told about the host, the replaced hosts, per
                     \* socket address its run of wrong PINs
    last,            \* the request, message or event handled last and its response
    mode,            \* the entry point that runs: "webrtc" or "screenshot"
    conn,            \* per WebSocket connection: its transport state
    hostConnection,  \* server-webrtc.js: hostConnection
    viewerConnections, \* server-webrtc.js: viewerConnections, in insertion order
    clients,         \* websocket.js: this.clients
    isStreaming,     \* websocket.js: this.isStreaming
    streamTimer,     \* websocket.js: this.streamTimer
    timers,          \* pending setTimeout(sendFrame, delay) callbacks
    capturing,       \* sendFrame invocations awaiting captureScreenBuffer()
    frameCount,      \* websocket.js: this.frameCount
    wssOpen,         \* the ws server still accepts connections (wss.close() not called)
    pendingOffers,   \* signaling.js: per connection, handleMessage calls awaiting onOffer
    out              \* what the last handler sent, in order

authVars == <<currentPin, pinHash, sessions, attemptTracker, now, nextToken, hist>>
brokerVars == <<hostConnection, viewerConnections>>
streamVars == <<clients, isStreaming, streamTimer, timers, capturing, frameCount,
                wssOpen, pendingOffers>>
wsVars == <<mode, conn, hostConnection, viewerConnections, clients, isStreaming,
            streamTimer, timers, capturing, frameCount, wssOpen, pendingOffers, out>>
vars == <<currentPin, pinHash, sessions, attemptTracker, now, nextToken, hist, last,
          mode, conn, hostConnection, viewerConnections, clients, isStreaming,
          streamTimer, timers, capturing, frameCount, wssOpen, pendingOffers, out>>

(***************************************************************************)
(* auth.js                                                                 *)
(***************************************************************************)
\* crypto.createHash('sha256').update(pin).digest('hex'), first 8 hex digits.
\* update() throws a TypeError when pin is not a string or a buffer.
SHA256 == ("100000" :> "3bb78535") @@ ("999999" :> "937377f0")

hashPin(pin) == SHA256[pin]

IsLocked(tracker, t) ==
    /\ tracker # NoEntry
    /\ tracker.lockedUntil # 0
    /\ t < tracker.lockedUntil

CeilDiv(a, b) == (a + b - 1) \div b

verifyPinSkipsLockCheck(trk, hash, inputPin, clientIP, t) ==
    LET tracker == trk[clientIP]
        attempts == tracker.count + 1
    IN  IF inputPin = Undefined
        THEN [ret |-> [success |-> FALSE, locked |-> FALSE, thrown |-> TRUE,
                       remainingAttempts |-> -1, remainingSeconds |-> -1],
              tracker |-> trk]
        ELSE IF hashPin(inputPin) = hash
        THEN [ret |-> [success |-> TRUE, locked |-> FALSE, thrown |-> FALSE,
                       remainingAttempts |-> -1, remainingSeconds |-> -1],
              tracker |-> [trk EXCEPT ![clientIP] = NoEntry]]
        ELSE IF attempts >= MAX_ATTEMPTS
        THEN [ret |-> [success |-> FALSE, locked |-> TRUE, thrown |-> FALSE,
                       remainingAttempts |-> -1, remainingSeconds |-> -1],
              tracker |-> [trk EXCEPT ![clientIP] =
                              [count |-> attempts, lockedUntil |-> t + LOCKOUT_DURATION]]]
        ELSE [ret |-> [success |-> FALSE, locked |-> FALSE, thrown |-> FALSE,
                       remainingAttempts |-> MAX_ATTEMPTS - attempts,
                       remainingSeconds |-> -1],
              tracker |-> [trk EXCEPT ![clientIP] =
                              [count |-> attempts, lockedUntil |-> 0]]]

verifyPinSharedTracker(trk, hash, inputPin, clientIP, t) ==
    LET r == verifyPinSkipsLockCheck(trk, hash, inputPin, "127.0.0.1", t)
    IN  IF IsLocked(trk["127.0.0.1"], t)
        THEN [ret |-> [success |-> FALSE, locked |-> TRUE, thrown |-> FALSE,
                       remainingAttempts |-> -1,
                       remainingSeconds |->
                           CeilDiv(trk["127.0.0.1"].lockedUntil - t, 1000)],
              tracker |-> trk]
        ELSE r

verifyPinExtendsLock(trk, hash, inputPin, clientIP, t) ==
    IF IsLocked(trk[clientIP], t)
    THEN [ret |-> [success |-> FALSE, locked |-> TRUE, thrown |-> FALSE,
                   remainingAttempts |-> -1,
                   remainingSeconds |-> CeilDiv(trk[clientIP].lockedUntil - t, 1000)],
          tracker |-> [trk EXCEPT ![clientIP] =
                          [count |-> @.count + 1, lockedUntil |-> t + LOCKOUT_DURATION]]]
    ELSE verifyPinSkipsLockCheck(trk, hash, inputPin, clientIP, t)

verifyPinLocksLate(trk, hash, inputPin, clientIP, t) ==
    LET r == verifyPinSkipsLockCheck(trk, hash, inputPin, clientIP, t)
    IN  IF IsLocked(trk[clientIP], t)
        THEN [ret |-> [success |-> FALSE, locked |-> TRUE, thrown |-> FALSE,
                       remainingAttempts |-> -1,
                       remainingSeconds |-> CeilDiv(trk[clientIP].lockedUntil - t, 1000)],
              tracker |-> trk]
        ELSE IF r.ret.locked /\ trk[clientIP].count + 1 = MAX_ATTEMPTS
        THEN [ret |-> [success |-> FALSE, locked |-> FALSE, thrown |-> FALSE,
                       remainingAttempts |-> 0, remainingSeconds |-> -1],
              tracker |-> [trk EXCEPT ![clientIP] =
                              [count |-> MAX_ATTEMPTS, lockedUntil |-> 0]]]
        ELSE r

verifyPinKeepsTracker(trk, hash, inputPin, clientIP, t) ==
    LET r == verifyPinSkipsLockCheck(trk, hash, inputPin, clientIP, t)
    IN  IF IsLocked(trk[clientIP], t)
        THEN [ret |-> [success |-> FALSE, locked |-> TRUE, thrown |-> FALSE,
                       remainingAttempts |-> -1,
                       remainingSeconds |-> CeilDiv(trk[clientIP].lockedUntil - t, 1000)],
              tracker |-> trk]
        ELSE IF r.ret.success THEN [ret |-> r.ret, tracker |-> trk]
        ELSE r

\* verifyPin(inputPin, clientIP) at time t: the value returned (or thrown)
\* and the attempt tracker it leaves behind.
verifyPin(trk, hash, inputPin, clientIP, t) ==
    LET tracker == trk[clientIP]
        attempts == tracker.count + 1
    IN  IF IsLocked(tracker, t)
        THEN [ret |-> [success |-> FALSE, locked |-> TRUE, thrown |-> FALSE,
                       remainingAttempts |-> -1,
                       remainingSeconds |-> CeilDiv(tracker.lockedUntil - t, 1000)],
              tracker |-> trk]
        ELSE IF inputPin = Undefined
        THEN [ret |-> [success |-> FALSE, locked |-> FALSE, thrown |-> TRUE,
                       remainingAttempts |-> -1, remainingSeconds |-> -1],
              tracker |-> trk]
        ELSE IF hashPin(inputPin) = hash
        THEN [ret |-> [success |-> TRUE, locked |-> FALSE, thrown |-> FALSE,
                       remainingAttempts |-> -1, remainingSeconds |-> -1],
              tracker |-> [trk EXCEPT ![clientIP] = NoEntry]]
        ELSE IF attempts >= MAX_ATTEMPTS
        THEN [ret |-> [success |-> FALSE, locked |-> TRUE, thrown |-> FALSE,
                       remainingAttempts |-> -1, remainingSeconds |-> -1],
              tracker |-> [trk EXCEPT ![clientIP] =
                              [count |-> attempts, lockedUntil |-> t + LOCKOUT_DURATION]]]
        ELSE [ret |-> [success |-> FALSE, locked |-> FALSE, thrown |-> FALSE,
                       remainingAttempts |-> MAX_ATTEMPTS - attempts,
                       remainingSeconds |-> -1],
              tracker |-> [trk EXCEPT ![clientIP] =
                              [count |-> attempts, lockedUntil |-> 0]]]

\* createSession(clientIP): the session map after sessions.set(token, ...).
createSession(sess, token, clientIP, t) ==
    [sess EXCEPT ![token] = [createdAt |-> t, ip |-> clientIP]]

validateSessionExpiresEarly(sess, token, t) ==
    IF token = NoToken THEN [ret |-> FALSE, sessions |-> sess]
    ELSE IF sess[token] = NoSession THEN [ret |-> FALSE, sessions |-> sess]
    ELSE IF t - sess[token].createdAt >= SESSION_DURATION
    THEN [ret |-> FALSE, sessions |-> [sess EXCEPT ![token] = NoSession]]
    ELSE [ret |-> TRUE, sessions |-> sess]

\* validateSession(token) at time t: the value returned and the session map
\* it leaves behind (an expired entry is deleted on lookup).
validateSession(sess, token, t) ==
    IF token = NoToken THEN [ret |-> FALSE, sessions |-> sess]
    ELSE IF sess[token] = NoSession THEN [ret |-> FALSE, sessions |-> sess]
    ELSE IF t - sess[token].createdAt > SESSION_DURATION
    THEN [ret |-> FALSE, sessions |-> [sess EXCEPT ![token] = NoSession]]
    ELSE [ret |-> TRUE, sessions |-> sess]

\* cleanupSessions() at time t.
cleanupSessions(sess, t) ==
    [token \in Tokens |->
        IF sess[token] # NoSession /\ t - sess[token].createdAt > SESSION_DURATION
        THEN NoSession ELSE sess[token]]

removeSessionByAddress(sess, token) ==
    IF token = NoToken THEN [ret |-> FALSE, sessions |-> sess]
    ELSE [ret |-> sess[token] # NoSession,
          sessions |-> [u \in Tokens |->
                           IF sess[u].ip = sess[token].ip THEN NoSession ELSE sess[u]]]

\* removeSession(token): sessions.delete(token) and its return value.
removeSession(sess, token) ==
    IF token = NoToken THEN [ret |-> FALSE, sessions |-> sess]
    ELSE [ret |-> sess[token] # NoSession,
          sessions |-> [sess EXCEPT ![token] = NoSession]]

(***************************************************************************)
(* server.js / server-webrtc.js: HTTP auth API                             *)
(***************************************************************************)
\* req.headers['x-forwarded-for']?.split(',')[0] || req.socket.remoteAddress
\* (xff is the header split at its commas, NoHeader when it is absent or empty).
getClientIPFromSocket(xff, remoteAddress) == remoteAddress

getClientIP(xff, remoteAddress) ==
    IF xff # NoHeader THEN Head(xff) ELSE remoteAddress

isLocalIP(ip) == ip \in LocalAddrs

\* The state when the modules of entry point m have been loaded.
StartWith(m, observed) ==
    /\ currentPin = Null
    /\ pinHash = Null
    /\ sessions = [token \in Tokens |-> NoSession]
    /\ attemptTracker = [ip \in Addrs |-> NoEntry]
    /\ now = 0
    /\ nextToken = 1
    /\ hist = [fails |-> [ip \in Addrs |-> 0],
               lastFailAt |-> [ip \in Addrs |-> 0],
               issuedAt |-> [token \in Tokens |-> -1],
               loggedOut |-> {},
               indexed |-> FALSE,
               registeredAs |-> [c \in Conns |-> -1],
               observed |-> observed,
               admittedWith |-> [c \in Conns |-> NoToken],
               presence |-> [c \in Conns |-> "unknown"],
               formerHosts |-> {},
               streak |-> [ra \in SocketAddrs |-> 0]]
    /\ last = [op |-> "start"]
    /\ mode = m
    /\ conn = [c \in Conns |-> "none"]
    /\ hostConnection = NoConn
    /\ viewerConnections = <<>>
    /\ clients = {}
    /\ isStreaming = FALSE
    /\ streamTimer = NoTimer
    /\ timers = {}
    /\ capturing = 0
    /\ frameCount = 0
    /\ wssOpen = TRUE
    /\ pendingOffers = [c \in Conns |-> 0]
    /\ out = <<>>

Start(m) == StartWith(m, {})

Init == Start("screenshot")

Listening == currentPin # Null

generatePinKeepsHash(pin) ==
    /\ currentPin' = pin
    /\ pinHash' = IF pinHash = Null THEN hashPin(pin) ELSE pinHash
    /\ last' = [op |-> "generatePin", pin |-> pin]
    /\ UNCHANGED <<sessions, attemptTracker, now, nextToken, hist, wsVars>>

\* generatePin(), called from the listen callback.
generatePin(pin) ==
    /\ currentPin' = pin
    /\ pinHash' = hashPin(pin)
    /\ last' = [op |-> "generatePin", pin |-> pin]
    /\ UNCHANGED <<sessions, attemptTracker, now, nextToken, hist, wsVars>>

GeneratePin == \E pin \in Pins : generatePin(pin)

\* Time passes.
Tick(d) ==
    /\ now + d \in Times
    /\ now' = now + d
    /\ last' = [op |-> "tick"]
    /\ UNCHANGED <<currentPin, pinHash, sessions, attemptTracker, nextToken, hist, wsVars>>

\* History kept for the properties: a call that compared the PIN and reported a
\* mismatch counts as a failed attempt; a rejection of a locked address and a
\* thrown call count as neither failure nor success.
HistAfterVerify(r, clientIP) ==
    IF r.ret.success
    THEN [hist EXCEPT !.fails[clientIP] = 0, !.lastFailAt[clientIP] = 0]
    ELSE IF r.ret.thrown \/ (r.ret.locked /\ r.ret.remainingSeconds >= 0)
    THEN hist
    ELSE [hist EXCEPT !.fails[clientIP] = @ + 1,
                      !.lastFailAt[clientIP] =
                          IF hist.fails[clientIP] + 1 >= 5 THEN now ELSE 0]

\* History kept for the properties (when hist.observed says so): per socket
\* address, the wrong PINs it has had compared in a row, counted from its last
\* success or its last request that was refused as locked without a comparison.
HistAfterAttempt(h, r, remoteAddress) ==
    IF "peer" \notin h.observed \/ r.ret.thrown THEN h
    ELSE IF r.ret.success \/ (r.ret.locked /\ r.ret.remainingSeconds >= 0)
    THEN [h EXCEPT !.streak[remoteAddress] = 0]
    ELSE [h EXCEPT !.streak[remoteAddress] = @ + 1]

\* The request as the properties see it: with its header and socket address
\* when the history of the peers is kept.
Seen(rec, xff, remoteAddress) ==
    IF "peer" \in hist.observed
    THEN rec @@ [xff |-> xff, remoteAddress |-> remoteAddress]
    ELSE rec

PostAuthAlwaysCreates(pin, xff, remoteAddress) ==
    LET clientIP == getClientIP(xff, remoteAddress)
        result == verifyPin(attemptTracker, pinHash, pin, clientIP, now)
    IN  /\ Listening
        /\ attemptTracker' = result.tracker
        /\ ~result.ret.thrown /\ nextToken <= MaxTokens
        /\ sessions' = createSession(sessions, nextToken, clientIP, now)
        /\ nextToken' = nextToken + 1
        /\ hist' = [HistAfterVerify(result, clientIP)
                        EXCEPT !.issuedAt[nextToken] = now]
        /\ last' = [op |-> "auth", pin |-> pin, clientIP |-> clientIP,
                    status |-> 200, ret |-> result.ret, token |-> nextToken]
        /\ UNCHANGED <<currentPin, pinHash, now, wsVars>>

\* POST /api/auth
PostAuth(pin, xff, remoteAddress) ==
    LET clientIP == getClientIP(xff, remoteAddress)
        result == verifyPin(attemptTracker, pinHash, pin, clientIP, now)
        h == HistAfterAttempt(HistAfterVerify(result, clientIP), result, remoteAddress)
    IN  /\ Listening
        /\ attemptTracker' = result.tracker
        /\ IF result.ret.thrown
           THEN /\ last' = Seen([op |-> "auth", pin |-> pin, clientIP |-> clientIP,
                                 status |-> 500, ret |-> result.ret, token |-> NoToken],
                                xff, remoteAddress)
                /\ hist' = h
                /\ UNCHANGED <<sessions, nextToken>>
           ELSE IF result.ret.success
           THEN /\ nextToken <= MaxTokens
                /\ sessions' = createSession(sessions, nextToken, clientIP, now)
                /\ nextToken' = nextToken + 1
                /\ hist' = [h EXCEPT !.issuedAt[nextToken] = now]
                /\ last' = Seen([op |-> "auth", pin |-> pin, clientIP |-> clientIP,
                                 status |-> 200, ret |-> result.ret, token |-> nextToken],
                                xff, remoteAddress)
           ELSE /\ last' = Seen([op |-> "auth", pin |-> pin, clientIP |-> clientIP,
                                 status |-> 401, ret |-> result.ret, token |-> NoToken],
                                xff, remoteAddress)
                /\ hist' = h
                /\ UNCHANGED <<sessions, nextToken>>
        /\ UNCHANGED <<currentPin, pinHash, now, wsVars>>

\* GET /api/auth/check, and the requireAuth middleware of the protected pages.
AuthCheck(token) ==
    LET v == validateSession(sessions, token, now)
    IN  /\ Listening
        /\ sessions' = v.sessions
        /\ last' = [op |-> "check", token |-> token, authenticated |-> v.ret]
        /\ UNCHANGED <<currentPin, pinHash, attemptTracker, now, nextToken, hist, wsVars>>

logoutClosesSockets(token) ==
    /\ Listening
    /\ sessions' = removeSession(sessions, token).sessions
    /\ hist' = IF token = NoToken \/ hist.issuedAt[token] < 0 THEN hist
               ELSE [hist EXCEPT !.loggedOut = @ \cup {token}]
    /\ last' = [op |-> "logout", token |-> token,
                removed |-> removeSession(sessions, token).ret]
    /\ conn' = [c \in Conns |-> IF conn[c] = "open" THEN "closing" ELSE conn[c]]
    /\ out' = out
    /\ UNCHANGED <<currentPin, pinHash, attemptTracker, now, nextToken, mode,
                   brokerVars, streamVars>>

\* POST /api/auth/logout
Logout(token) ==
    LET r == removeSession(sessions, token)
    IN  /\ Listening
        /\ sessions' = r.sessions
        /\ hist' = IF token = NoToken \/ hist.issuedAt[token] < 0 THEN hist
                   ELSE [hist EXCEPT !.loggedOut = @ \cup {token}]
        /\ last' = [op |-> "logout", token |-> token, removed |-> r.ret]
        /\ UNCHANGED <<currentPin, pinHash, attemptTracker, now, nextToken, wsVars>>

\* GET /api/auth/pin
GetPin(xff, remoteAddress) ==
    LET clientIP == getClientIP(xff, remoteAddress)
    IN  /\ Listening
        /\ last' = IF clientIP = "127.0.0.1" \/ clientIP = "::1"
                      \/ clientIP = "::ffff:127.0.0.1"
                   THEN [op |-> "pin", remoteAddress |-> remoteAddress,
                         status |-> 200, pin |-> currentPin]
                   ELSE [op |-> "pin", remoteAddress |-> remoteAddress,
                         status |-> 403, pin |-> Null]
        /\ UNCHANGED <<authVars, wsVars>>

\* setInterval(cleanupSessions, 60 * 60 * 1000)
Cleanup ==
    /\ sessions' = cleanupSessions(sessions, now)
    /\ last' = [op |-> "cleanup"]
    /\ UNCHANGED <<currentPin, pinHash, attemptTracker, now, nextToken, hist, wsVars>>

\* A login with the PIN shown on the host machine.
Login(xff, remoteAddress) == PostAuth(currentPin, xff, remoteAddress)

(***************************************************************************)
(* PIN verification and lockout: the auth API under arbitrary candidates,   *)
(* followed up to the MaxLogins-th successful login.                       *)
(***************************************************************************)
LoginsLeft(pin, xff, remoteAddress) ==
    verifyPin(attemptTracker, pinHash, pin, getClientIP(xff, remoteAddress), now).ret.success
        => nextToken <= MaxLogins

Next ==
    \/ GeneratePin
    \/ \E d \in {1, LOCKOUT_DURATION} : Tick(d)
    \/ \E pin \in Candidates, xff \in XffValues, ra \in SocketAddrs :
           LoginsLeft(pin, xff, ra) /\ PostAuth(pin, xff, ra)

Spec == Init /\ [][Next]_vars

\* POST /api/auth from peers that send, vary or omit X-Forwarded-For; the
\* requests are kept with their header and socket address.
NextForwarded ==
    \/ ~Listening /\ GeneratePin
    \/ \E pin \in Pins, xff \in ForwardedValues, ra \in SocketAddrs :
           LoginsLeft(pin, xff, ra) /\ PostAuth(pin, xff, ra)

SpecForwarded == StartWith("screenshot", {"peer"}) /\ [][NextForwarded]_vars

(***************************************************************************)
(* Session lifecycle and PIN display: logins, lookups, logouts, the         *)
(* periodic sweep and GET /api/auth/pin.                                   *)
(***************************************************************************)
NextSession ==
    \/ GeneratePin
    \/ \E d \in {1, SESSION_DURATION} : Tick(d)
    \/ \E xff \in XffValues, ra \in SocketAddrs : Login(xff, ra)
    \/ \E token \in Tokens \cup {NoToken} : AuthCheck(token)
    \/ \E token \in Tokens \cup {NoToken} : Logout(token)
    \/ \E xff \in XffValues, ra \in SocketAddrs : GetPin(xff, ra)
    \/ Cleanup

SpecSession == Init /\ [][NextSession]_vars

(***************************************************************************)
(* WebSocket connections (server-webrtc.js, src/websocket.js)              *)
(***************************************************************************)
\* The state of a server that has been up for a day: the PIN is displayed, a
\* remote peer logged in at start (its session has expired by now) and logged
\* in again just now.
ServingHist(m, indexed, observed) ==
    /\ currentPin = "100000"
    /\ pinHash = hashPin("100000")
    /\ now = SESSION_DURATION + 1
    /\ sessions = [token \in Tokens |->
                      IF token = 1 THEN [createdAt |-> 0, ip |-> "192.168.1.20"]
                      ELSE IF token = 2
                      THEN [createdAt |-> SESSION_DURATION + 1, ip |-> "192.168.1.20"]
                      ELSE NoSession]
    /\ nextToken = IF MaxTokens >= 2 THEN 3 ELSE 2
    /\ attemptTracker = [ip \in Addrs |-> NoEntry]
    /\ hist = [fails |-> [ip \in Addrs |-> 0],
               lastFailAt |-> [ip \in Addrs |-> 0],
               issuedAt |-> [token \in Tokens |->
                               IF token = 1 THEN 0
                               ELSE IF token = 2 THEN SESSION_DURATION + 1 ELSE -1],
               loggedOut |-> {},
               indexed |-> indexed,
               registeredAs |-> [c \in Conns |-> -1],
               observed |-> observed,
               admittedWith |-> [c \in Conns |-> NoToken],
               presence |-> [c \in Conns |-> "unknown"],
               formerHosts |-> {},
               streak |-> [ra \in SocketAddrs |-> 0]]
    /\ last = [op |-> "start"]
    /\ mode = m
    /\ conn = [c \in Conns |-> "none"]
    /\ hostConnection = NoConn
    /\ viewerConnections = <<>>
    /\ clients = {}
    /\ isStreaming = FALSE
    /\ streamTimer = NoTimer
    /\ timers = {}
    /\ capturing = 0
    /\ frameCount = 0
    /\ wssOpen = TRUE
    /\ pendingOffers = [c \in Conns |-> 0]
    /\ out = <<>>

ServingWith(m, indexed) == ServingHist(m, indexed, {})

Serving(m) == ServingWith(m, FALSE)

\* The connection object the next 'connection' event carries.
NewConn == CHOOSE c \in Conns : conn[c] = "none" /\ \A d \in Conns : d < c => conn[d] # "none"

IsOpen(c) == conn[c] = "open"

Send(to, msg) == [to |-> to, msg |-> msg]

SeqToSet(q) == {q[i] : i \in 1..Len(q)}

\* Set.prototype.add: insertion order, no duplicates.
SetAdd(q, c) == IF c \in SeqToSet(q) THEN q ELSE Append(q, c)

\* Set.prototype.delete
SetDelete(q, c) == SelectSeq(q, LAMBDA x : x # c)

admitAll(remoteAddress, token) == TRUE

\* The admission test of the 'connection' handlers: local-machine addresses
\* need no token, remote ones a token for which validateSession is true.
admit(remoteAddress, token) ==
    \/ isLocalIP(remoteAddress)
    \/ (token # NoToken /\ validateSession(sessions, token, now).ret)

\* The session map after the admission test (validateSession runs only for a
\* remote address that presents a token).
SessionsAfterAdmission(remoteAddress, token) ==
    IF ~isLocalIP(remoteAddress) /\ token # NoToken
    THEN validateSession(sessions, token, now).sessions
    ELSE sessions

Reject(c) == <<Send(c, [type |-> "close", code |-> UNAUTHORIZED])>>

\* getViewerId(ws)
getViewerId(c) ==
    IF c \in SeqToSet(viewerConnections)
    THEN (CHOOSE i \in 1..Len(viewerConnections) : viewerConnections[i] = c) - 1
    ELSE -1

\* getViewerById(id)
getViewerById(id) ==
    IF id >= 0 /\ id < Len(viewerConnections) THEN viewerConnections[id + 1] ELSE NoConn

broadcastToFirst(q, data) ==
    IF q # <<>> /\ IsOpen(Head(q)) THEN <<Send(Head(q), data)>> ELSE <<>>

\* broadcast(data) over the viewers q: one send per viewer whose readyState is OPEN.
RECURSIVE broadcast(_, _)
broadcast(q, data) ==
    IF q = <<>> THEN <<>>
    ELSE (IF IsOpen(Head(q)) THEN <<Send(Head(q), data)>> ELSE <<>>)
             \o broadcast(Tail(q), data)

\* History kept for the properties (when hist.observed says so): the token a remote
\* connection was accepted with.
HistAfterAdmission(c, remoteAddress, token) ==
    IF "admission" \in hist.observed /\ admit(remoteAddress, token)
          /\ ~isLocalIP(remoteAddress)
    THEN [hist EXCEPT !.admittedWith[c] = token]
    ELSE hist

\* client-webrtc.js handleSignaling: what a message tells a viewer about the
\* host, "present" or "absent" ("none" for a message that says nothing).
Says(msg) ==
    IF msg.type = "host-ready" THEN "present"
    ELSE IF msg.type = "host-disconnected" THEN "absent"
    ELSE IF msg.type = "registered" /\ msg.role = "viewer"
    THEN (IF msg.hostReady THEN "present" ELSE "absent")
    ELSE "none"

\* History kept for the properties (when h.observed says so): per connection, what
\* the latest message about the host delivered to it said.
HistAfterDelivery(h, o) ==
    IF "presence" \notin h.observed THEN h
    ELSE [h EXCEPT !.presence =
             [c \in Conns |->
                 LET told == {i \in 1..Len(o) : o[i].to = c /\ Says(o[i].msg) # "none"}
                 IN  IF told = {} THEN h.presence[c]
                     ELSE Says(o[CHOOSE i \in told : \A j \in told : j <= i].msg)]]

\* History kept for the properties (when h.observed says so): the connections that
\* were the host and have been replaced by a later register-host.
HistAfterReplacement(h, old, c) ==
    IF "presence" \in h.observed
    THEN [h EXCEPT !.formerHosts = (@ \cup ({old} \ {NoConn})) \ {c}]
    ELSE h

\* wss.on('connection') of server-webrtc.js
BrokerConnect(remoteAddress, token) ==
    LET c == NewConn
    IN  /\ mode = "webrtc"
        /\ \E d \in Conns : conn[d] = "none"
        /\ sessions' = SessionsAfterAdmission(remoteAddress, token)
        /\ IF admit(remoteAddress, token)
           THEN /\ conn' = [conn EXCEPT ![c] = "open"]
                /\ out' = <<>>
           ELSE /\ conn' = [conn EXCEPT ![c] = "rejected"]
                /\ out' = Reject(c)
        /\ hist' = HistAfterAdmission(c, remoteAddress, token)
        /\ last' = [op |-> "connect", conn |-> c, remoteAddress |-> remoteAddress,
                    token |-> token]
        /\ UNCHANGED <<currentPin, pinHash, attemptTracker, now, nextToken,
                       mode, brokerVars, streamVars>>

\* The transport of an accepted connection goes down: its readyState is no
\* longer OPEN and its 'close' event is due.
TransportDown(c) ==
    /\ IsOpen(c)
    /\ conn' = [conn EXCEPT ![c] = "closing"]
    /\ last' = [op |-> "down", conn |-> c]
    /\ out' = <<>>
    /\ UNCHANGED <<authVars, mode, brokerVars, streamVars>>

registerHostIfVacant(c) ==
    /\ mode = "webrtc"
    /\ IsOpen(c)
    /\ hostConnection' = IF hostConnection = NoConn THEN c ELSE hostConnection
    /\ out' = <<Send(c, [type |-> "registered", role |-> "host"])>>
                 \o broadcast(viewerConnections, [type |-> "host-ready"])
    /\ hist' = HistAfterReplacement(HistAfterDelivery(hist, out'), hostConnection, c)
    /\ last' = [op |-> "register-host", conn |-> c, replaced |-> hostConnection]
    /\ UNCHANGED <<currentPin, pinHash, sessions, attemptTracker, now, nextToken,
                   mode, conn, viewerConnections, streamVars>>

registerHostNotifiesFirst(c) ==
    /\ mode = "webrtc"
    /\ IsOpen(c)
    /\ hostConnection' = c
    /\ out' = broadcast(viewerConnections, [type |-> "host-ready"])
                 \o <<Send(c, [type |-> "registered", role |-> "host"])>>
    /\ hist' = HistAfterReplacement(HistAfterDelivery(hist, out'), hostConnection, c)
    /\ last' = [op |-> "register-host", conn |-> c, replaced |-> hostConnection]
    /\ UNCHANGED <<currentPin, pinHash, sessions, attemptTracker, now, nextToken,
                   mode, conn, viewerConnections, streamVars>>

registerHostUnannounced(c) ==
    /\ mode = "webrtc"
    /\ IsOpen(c)
    /\ hostConnection' = c
    /\ out' = <<Send(c, [type |-> "registered", role |-> "host"])>>
    /\ hist' = HistAfterReplacement(HistAfterDelivery(hist, out'), hostConnection, c)
    /\ last' = [op |-> "register-host", conn |-> c, replaced |-> hostConnection]
    /\ UNCHANGED <<currentPin, pinHash, sessions, attemptTracker, now, nextToken,
                   mode, conn, viewerConnections, streamVars>>

\* handleMessage, case 'register-host'
RegisterHost(c) ==
    /\ mode = "webrtc"
    /\ IsOpen(c)
    /\ hostConnection' = c
    /\ out' = <<Send(c, [type |-> "registered", role |-> "host"])>>
                 \o broadcast(viewerConnections, [type |-> "host-ready"])
    /\ hist' = HistAfterReplacement(HistAfterDelivery(hist, out'), hostConnection, c)
    /\ last' = [op |-> "register-host", conn |-> c, replaced |-> hostConnection]
    /\ UNCHANGED <<currentPin, pinHash, sessions, attemptTracker, now, nextToken,
                   mode, conn, viewerConnections, streamVars>>

Notification(level) == [type |-> "notification", level |-> level]

registerViewerAlwaysReady(c) ==
    /\ mode = "webrtc"
    /\ IsOpen(c)
    /\ viewerConnections' = SetAdd(viewerConnections, c)
    /\ out' = <<Send(c, [type |-> "registered", role |-> "viewer",
                         hostReady |-> TRUE])>>
                 \o (IF hostConnection # NoConn
                     THEN <<Send(hostConnection, Notification("info"))>>
                     ELSE <<>>)
    /\ hist' = HistAfterDelivery(
                   IF c \in SeqToSet(viewerConnections) \/ ~hist.indexed THEN hist
                   ELSE [hist EXCEPT !.registeredAs[c] = Len(viewerConnections)],
                   out')
    /\ last' = [op |-> "register-viewer", conn |-> c]
    /\ UNCHANGED <<currentPin, pinHash, sessions, attemptTracker, now, nextToken,
                   mode, conn, hostConnection, streamVars>>

\* handleMessage, case 'register-viewer'
RegisterViewer(c) ==
    /\ mode = "webrtc"
    /\ IsOpen(c)
    /\ viewerConnections' = SetAdd(viewerConnections, c)
    /\ out' = <<Send(c, [type |-> "registered", role |-> "viewer",
                         hostReady |-> hostConnection # NoConn])>>
                 \o (IF hostConnection # NoConn
                     THEN <<Send(hostConnection, Notification("info"))>>
                     ELSE <<>>)
    /\ hist' = HistAfterDelivery(
                   IF c \in SeqToSet(viewerConnections) \/ ~hist.indexed THEN hist
                   ELSE [hist EXCEPT !.registeredAs[c] = Len(viewerConnections)],
                   out')
    /\ last' = [op |-> "register-viewer", conn |-> c]
    /\ UNCHANGED <<currentPin, pinHash, sessions, attemptTracker, now, nextToken,
                   mode, conn, hostConnection, streamVars>>

offerReportsNoHost(c, sdp) ==
    /\ mode = "webrtc"
    /\ IsOpen(c)
    /\ out' = IF hostConnection # NoConn
              THEN <<Send(hostConnection, [type |-> "offer", sdp |-> sdp,
                                           viewerId |-> getViewerId(c)])>>
              ELSE <<Send(c, [type |-> "error", message |-> "no host"])>>
    /\ last' = [op |-> "offer", conn |-> c, sdp |-> sdp]
    /\ UNCHANGED <<authVars, mode, conn, brokerVars, streamVars>>

\* handleMessage, case 'offer'
Offer(c, sdp) ==
    /\ mode = "webrtc"
    /\ IsOpen(c)
    /\ out' = IF hostConnection # NoConn
              THEN <<Send(hostConnection, [type |-> "offer", sdp |-> sdp,
                                           viewerId |-> getViewerId(c)])>>
              ELSE <<>>
    /\ last' = [op |-> "offer", conn |-> c, sdp |-> sdp]
    /\ UNCHANGED <<authVars, mode, conn, brokerVars, streamVars>>

\* handleMessage, case 'answer'
Answer(c, sdp, viewerId) ==
    LET viewer == getViewerById(viewerId)
    IN  /\ mode = "webrtc"
        /\ IsOpen(c)
        /\ out' = IF viewer # NoConn
                  THEN <<Send(viewer, [type |-> "answer", sdp |-> sdp])>>
                  ELSE <<>>
        /\ last' = [op |-> "answer", conn |-> c, sdp |-> sdp, viewerId |-> viewerId]
        /\ UNCHANGED <<authVars, mode, conn, brokerVars, streamVars>>

iceCandidateAlwaysToHost(c, candidate, viewerId) ==
    /\ mode = "webrtc"
    /\ IsOpen(c)
    /\ out' = IF hostConnection # NoConn
              THEN <<Send(hostConnection, [type |-> "ice-candidate",
                                           candidate |-> candidate,
                                           viewerId |-> getViewerId(c)])>>
              ELSE <<>>
    /\ last' = [op |-> "ice-candidate", conn |-> c, candidate |-> candidate,
                viewerId |-> viewerId]
    /\ UNCHANGED <<authVars, mode, conn, brokerVars, streamVars>>

\* handleMessage, case 'ice-candidate'
IceCandidate(c, candidate, viewerId) ==
    LET targetViewer == getViewerById(viewerId)
    IN  /\ mode = "webrtc"
        /\ IsOpen(c)
        /\ out' = IF c = hostConnection
                  THEN IF targetViewer # NoConn
                       THEN <<Send(targetViewer, [type |-> "ice-candidate",
                                                  candidate |-> candidate])>>
                       ELSE <<>>
                  ELSE IF hostConnection # NoConn
                       THEN <<Send(hostConnection, [type |-> "ice-candidate",
                                                    candidate |-> candidate,
                                                    viewerId |-> getViewerId(c)])>>
                       ELSE <<>>
        /\ last' = [op |-> "ice-candidate", conn |-> c, candidate |-> candidate,
                    viewerId |-> viewerId]
        /\ UNCHANGED <<authVars, mode, conn, brokerVars, streamVars>>

brokerCloseKeepsViewer(c) ==
    LET slot == IF c = hostConnection THEN NoConn ELSE hostConnection
    IN  /\ mode = "webrtc"
        /\ conn[c] = "closing"
        /\ conn' = [conn EXCEPT ![c] = "closed"]
        /\ hostConnection' = slot
        /\ out' = IF c = hostConnection
                  THEN broadcast(viewerConnections, [type |-> "host-disconnected"])
                  ELSE IF c \in SeqToSet(viewerConnections) /\ hostConnection # NoConn
                  THEN <<Send(hostConnection, Notification("warning"))>>
                  ELSE <<>>
        /\ viewerConnections' = IF c = hostConnection THEN SetDelete(viewerConnections, c)
                                ELSE viewerConnections
        /\ hist' = HistAfterDelivery([hist EXCEPT !.registeredAs[c] = -1,
                                                   !.presence[c] = "unknown"], out')
        /\ last' = [op |-> "close", conn |-> c, slot |-> slot]
        /\ UNCHANGED <<currentPin, pinHash, sessions, attemptTracker, now, nextToken,
                       mode, streamVars>>

brokerCloseOfAnyHost(c) ==
    LET wasHost == c = hostConnection \/ c \in hist.formerHosts
        slot == IF wasHost THEN NoConn ELSE hostConnection
    IN  /\ mode = "webrtc"
        /\ conn[c] = "closing"
        /\ conn' = [conn EXCEPT ![c] = "closed"]
        /\ hostConnection' = slot
        /\ out' = IF wasHost
                  THEN broadcast(viewerConnections, [type |-> "host-disconnected"])
                  ELSE IF c \in SeqToSet(viewerConnections) /\ hostConnection # NoConn
                  THEN <<Send(hostConnection, Notification("warning"))>>
                  ELSE <<>>
        /\ viewerConnections' = SetDelete(viewerConnections, c)
        /\ hist' = HistAfterDelivery([hist EXCEPT !.registeredAs[c] = -1,
                                                   !.presence[c] = "unknown"], out')
        /\ last' = [op |-> "close", conn |-> c, slot |-> slot]
        /\ UNCHANGED <<currentPin, pinHash, sessions, attemptTracker, now, nextToken,
                       mode, streamVars>>

\* ws.on('close') of server-webrtc.js. slot is hostConnection after the
\* assignment of line 194, the value it has while broadcast() runs.
BrokerClose(c) ==
    LET slot == IF c = hostConnection THEN NoConn ELSE hostConnection
    IN  /\ mode = "webrtc"
        /\ conn[c] = "closing"
        /\ conn' = [conn EXCEPT ![c] = "closed"]
        /\ hostConnection' = slot
        /\ out' = IF c = hostConnection
                  THEN broadcast(viewerConnections, [type |-> "host-disconnected"])
                  ELSE IF c \in SeqToSet(viewerConnections) /\ hostConnection # NoConn
                  THEN <<Send(hostConnection, Notification("warning"))>>
                  ELSE <<>>
        /\ viewerConnections' = SetDelete(viewerConnections, c)
        /\ hist' = HistAfterDelivery([hist EXCEPT !.registeredAs[c] = -1,
                                                   !.presence[c] = "unknown"], out')
        /\ last' = [op |-> "close", conn |-> c, slot |-> slot]
        /\ UNCHANGED <<currentPin, pinHash, sessions, attemptTracker, now, nextToken,
                       mode, streamVars>>

Sdps == {"v=0 a", "v=0 b"}
IceCandidates == {"candidate:1", "candidate:2"}
ViewerIds == 0..(MaxConns - 2)
\* message.viewerId of a message that has no such field (the viewer's own
\* ice-candidate messages): no index equals it.
NoViewerId == -1

\* The peers of a session: the host page on the machine itself, and a phone
\* that has logged in.
Peers == {[remoteAddress |-> "127.0.0.1", token |-> NoToken],
          [remoteAddress |-> "192.168.1.20", token |-> 2]}

\* handleMessage on a message of an accepted connection.
HandleMessage(sdps, candidates, ids) ==
    \/ \E c \in Conns : RegisterHost(c)
    \/ \E c \in Conns : RegisterViewer(c)
    \/ \E c \in Conns, sdp \in sdps : Offer(c, sdp)
    \/ \E c \in Conns, sdp \in sdps, id \in ids : Answer(c, sdp, id)
    \/ \E c \in Conns, k \in candidates, id \in ids \cup {NoViewerId} :
           (id = NoViewerId <=> c # hostConnection) /\ IceCandidate(c, k, id)

\* Registration and the viewer-to-host direction: who is host, who is told.
NextBroker ==
    \/ \E p \in Peers : BrokerConnect(p.remoteAddress, p.token)
    \/ \E c \in Conns : TransportDown(c)
    \/ \E c \in Conns : RegisterHost(c)
    \/ \E c \in Conns : RegisterViewer(c)
    \/ \E c \in Conns : Offer(c, "v=0 a")
    \/ \E c \in Conns \ {hostConnection} : IceCandidate(c, "candidate:1", NoViewerId)
    \/ \E c \in Conns : BrokerClose(c)

SpecBroker == Serving("webrtc") /\ [][NextBroker]_vars

\* Registration and departure, with what each viewer was told about the host
\* and the replaced hosts kept as history.
NextPresence ==
    \/ \E p \in Peers : BrokerConnect(p.remoteAddress, p.token)
    \/ \E c \in Conns : TransportDown(c)
    \/ \E c \in Conns : RegisterHost(c)
    \/ \E c \in Conns : RegisterViewer(c)
    \/ \E c \in Conns : BrokerClose(c)

SpecPresence == ServingHist("webrtc", FALSE, {"presence"}) /\ [][NextPresence]_vars

\* Relaying: every negotiation message, payload and viewer index.
NextRelay ==
    \/ \E p \in Peers : BrokerConnect(p.remoteAddress, p.token)
    \/ \E c \in Conns : TransportDown(c)
    \/ HandleMessage(Sdps, IceCandidates, ViewerIds)
    \/ \E c \in Conns : BrokerClose(c)

SpecRelay == Serving("webrtc") /\ [][NextRelay]_vars

\* Relaying, with the index each viewer registered with kept as history.
SpecIndex == ServingWith("webrtc", TRUE) /\ [][NextRelay]_vars

(***************************************************************************)
(* Frame streamer (src/websocket.js, class WebSocketServer)                *)
(***************************************************************************)
NewTimer == CHOOSE t \in 1..(Cardinality(timers) + 1) :
                t \notin timers /\ \A u \in 1..(t - 1) : u \in timers

\* sendFrame up to its await: nothing happens when streaming is off or no
\* client is left, otherwise a capture is requested.
SendFrameStarts(streaming, cl) == streaming /\ cl # {}

\* broadcastBinary(buffer): one send per client whose readyState is OPEN, in
\* the insertion order of this.clients (the order the connections arrived in).
RECURSIVE broadcastBinaryFrom(_, _, _)
broadcastBinaryFrom(c, cl, buffer) ==
    IF c > MaxConns THEN <<>>
    ELSE (IF c \in cl /\ IsOpen(c) THEN <<Send(c, buffer)>> ELSE <<>>)
             \o broadcastBinaryFrom(c + 1, cl, buffer)

broadcastBinaryToAll(cl, buffer) ==
    [i \in 1..Cardinality(cl) |->
        Send(CHOOSE d \in cl : Cardinality({e \in cl : e < d}) = i - 1, buffer)]

broadcastBinary(cl, buffer) == broadcastBinaryFrom(1, cl, buffer)

\* wss.on('connection') of websocket.js, with startStreaming()
StreamConnect(remoteAddress, token) ==
    LET c == NewConn
    IN  /\ mode = "screenshot"
        /\ wssOpen
        /\ \E d \in Conns : conn[d] = "none"
        /\ sessions' = SessionsAfterAdmission(remoteAddress, token)
        /\ IF admit(remoteAddress, token)
           THEN /\ conn' = [conn EXCEPT ![c] = "open"]
                /\ clients' = clients \cup {c}
                /\ out' = <<Send(c, [type |-> "init", binaryMode |-> TRUE])>>
                /\ isStreaming' = TRUE
                /\ capturing' = IF ~isStreaming THEN capturing + 1 ELSE capturing
                /\ frameCount' = IF ~isStreaming THEN 0 ELSE frameCount
           ELSE /\ conn' = [conn EXCEPT ![c] = "rejected"]
                /\ out' = Reject(c)
                /\ UNCHANGED <<clients, isStreaming, capturing, frameCount>>
        /\ hist' = HistAfterAdmission(c, remoteAddress, token)
        /\ last' = [op |-> "connect", conn |-> c, remoteAddress |-> remoteAddress,
                    token |-> token]
        /\ UNCHANGED <<currentPin, pinHash, attemptTracker, now, nextToken,
                       mode, brokerVars, streamTimer, timers, wssOpen, pendingOffers>>

\* ws.on('error') of websocket.js; the socket is then closed
StreamError(c) ==
    /\ mode = "screenshot"
    /\ IsOpen(c)
    /\ conn' = [conn EXCEPT ![c] = "closing"]
    /\ clients' = clients \ {c}
    /\ last' = [op |-> "error", conn |-> c]
    /\ out' = <<>>
    /\ UNCHANGED <<authVars, mode, brokerVars, isStreaming, streamTimer, timers, capturing,
                   frameCount, wssOpen, pendingOffers>>

streamCloseKeepsStreaming(c) ==
    /\ mode = "screenshot"
    /\ conn[c] = "closing"
    /\ conn' = [conn EXCEPT ![c] = "closed"]
    /\ clients' = clients \ {c}
    /\ last' = [op |-> "close", conn |-> c]
    /\ out' = <<>>
    /\ UNCHANGED <<authVars, mode, brokerVars, capturing, isStreaming, timers, streamTimer,
                   frameCount, wssOpen, pendingOffers>>

streamCloseKeepsClient(c) ==
    /\ mode = "screenshot"
    /\ conn[c] = "closing"
    /\ conn' = [conn EXCEPT ![c] = "closed"]
    /\ last' = [op |-> "close", conn |-> c]
    /\ out' = <<>>
    /\ UNCHANGED <<authVars, mode, brokerVars, streamVars>>

\* ws.on('close') of websocket.js, with stopStreaming()
StreamClose(c) ==
    /\ mode = "screenshot"
    /\ conn[c] = "closing"
    /\ conn' = [conn EXCEPT ![c] = "closed"]
    /\ clients' = clients \ {c}
    /\ IF clients \ {c} = {}
       THEN /\ isStreaming' = FALSE
            /\ timers' = timers \ {streamTimer}
            /\ streamTimer' = NoTimer
       ELSE UNCHANGED <<isStreaming, timers, streamTimer>>
    /\ last' = [op |-> "close", conn |-> c]
    /\ out' = <<>>
    /\ UNCHANGED <<authVars, mode, brokerVars, capturing, frameCount, wssOpen, pendingOffers>>

\* Math.max(a, b)
MathMax(a, b) == IF a >= b THEN a ELSE b

\* sendFrame, the frame counter: a frame that was produced is counted, and the
\* counter restarts once a second when the frame rate is logged.
FrameCountAfter(count, frame, fpsDue) ==
    IF frame = Null THEN count
    ELSE IF fpsDue THEN 0 ELSE count + 1

captureDoneUnclamped(frame, elapsed, fpsDue) ==
    /\ mode = "screenshot"
    /\ capturing > 0
    /\ (frame # Null /\ ~fpsDue) => frameCount < MaxFrames
    /\ capturing' = capturing - 1
    /\ out' = IF frame # Null THEN broadcastBinary(clients, frame) ELSE <<>>
    /\ frameCount' = FrameCountAfter(frameCount, frame, fpsDue)
    /\ IF isStreaming
       THEN /\ timers' = timers \cup {NewTimer}
            /\ streamTimer' = NewTimer
       ELSE UNCHANGED <<timers, streamTimer>>
    /\ last' = [op |-> "capture", frame |-> frame, elapsed |-> elapsed,
                delay |-> FRAME_INTERVAL - elapsed, scheduled |-> isStreaming]
    /\ UNCHANGED <<authVars, mode, conn, brokerVars, clients, isStreaming, wssOpen,
                   pendingOffers>>

captureDoneStopsOnFailure(frame, elapsed, fpsDue) ==
    /\ mode = "screenshot"
    /\ capturing > 0
    /\ (frame # Null /\ ~fpsDue) => frameCount < MaxFrames
    /\ capturing' = capturing - 1
    /\ out' = IF frame # Null THEN broadcastBinary(clients, frame) ELSE <<>>
    /\ frameCount' = FrameCountAfter(frameCount, frame, fpsDue)
    /\ IF isStreaming /\ frame # Null
       THEN /\ timers' = timers \cup {NewTimer}
            /\ streamTimer' = NewTimer
       ELSE UNCHANGED <<timers, streamTimer>>
    /\ last' = [op |-> "capture", frame |-> frame, elapsed |-> elapsed,
                delay |-> MathMax(1, FRAME_INTERVAL - elapsed),
                scheduled |-> isStreaming /\ frame # Null]
    /\ UNCHANGED <<authVars, mode, conn, brokerVars, clients, isStreaming, wssOpen,
                   pendingOffers>>

\* sendFrame after its await: captureScreenBuffer() has returned a frame, or
\* null when the capture failed, elapsed ms after sendFrame read the clock;
\* fpsDue says whether a second has passed since lastFpsTime.
CaptureDone(frame, elapsed, fpsDue) ==
    LET delay == MathMax(1, FRAME_INTERVAL - elapsed)
    IN  /\ mode = "screenshot"
        /\ capturing > 0
        /\ (frame # Null /\ ~fpsDue) => frameCount < MaxFrames
        /\ capturing' = capturing - 1
        /\ out' = IF frame # Null THEN broadcastBinary(clients, frame) ELSE <<>>
        /\ frameCount' = FrameCountAfter(frameCount, frame, fpsDue)
        /\ IF isStreaming
           THEN /\ timers' = timers \cup {NewTimer}
                /\ streamTimer' = NewTimer
           ELSE UNCHANGED <<timers, streamTimer>>
        /\ last' = [op |-> "capture", frame |-> frame, elapsed |-> elapsed,
                    delay |-> delay, scheduled |-> isStreaming]
        /\ UNCHANGED <<authVars, mode, conn, brokerVars, clients, isStreaming, wssOpen,
                       pendingOffers>>

\* A pending setTimeout(sendFrame, delay) fires.
TimerFires(t) ==
    /\ mode = "screenshot"
    /\ t \in timers
    /\ timers' = timers \ {t}
    /\ capturing' = IF SendFrameStarts(isStreaming, clients)
                    THEN capturing + 1 ELSE capturing
    /\ last' = [op |-> "timer", timer |-> t]
    /\ out' = <<>>
    /\ UNCHANGED <<authVars, mode, conn, brokerVars, clients, isStreaming, streamTimer,
                   frameCount, wssOpen, pendingOffers>>

Frames == {"jpeg", Null}
\* Date.now() - startTime: a capture faster than the frame interval, one that
\* takes exactly the interval, and slower ones.
Elapsed == {0, FRAME_INTERVAL - 1, FRAME_INTERVAL, 10 * FRAME_INTERVAL}
TimerIds == 1..(MaxConns + 1)

NextStream ==
    \/ \E ra \in SocketAddrs, token \in Tokens \cup {NoToken} : StreamConnect(ra, token)
    \/ \E c \in Conns : TransportDown(c)
    \/ \E c \in Conns : StreamError(c)
    \/ \E c \in Conns : StreamClose(c)
    \/ \E frame \in Frames, elapsed \in Elapsed, fpsDue \in BOOLEAN :
           CaptureDone(frame, elapsed, fpsDue)
    \/ \E t \in TimerIds : TimerFires(t)

SpecStream == Serving("screenshot") /\ [][NextStream]_vars

\* WebSocketServer.close(), called on SIGINT: stopStreaming(), then wss.close().
\* wss.close() stops accepting connections; whether it also terminates the
\* connected clients depends on the version of the ws package that is
\* installed (ws 7 terminates them, ws 8 leaves them open).
StreamShutdown(terminates) ==
    /\ mode = "screenshot"
    /\ wssOpen
    /\ wssOpen' = FALSE
    /\ isStreaming' = FALSE
    /\ timers' = timers \ {streamTimer}
    /\ streamTimer' = NoTimer
    /\ conn' = IF terminates
               THEN [c \in Conns |-> IF conn[c] = "open" THEN "closing" ELSE conn[c]]
               ELSE conn
    /\ last' = [op |-> "shutdown", terminates |-> terminates]
    /\ out' = <<>>
    /\ UNCHANGED <<authVars, mode, brokerVars, clients, capturing, frameCount,
                   pendingOffers>>

NextShutdown ==
    \/ NextStream
    \/ \E terminates \in BOOLEAN : StreamShutdown(terminates)

\* The frame streamer up to and after the shutdown of the process.
SpecShutdown == Serving("screenshot") /\ [][NextShutdown]_vars

(***************************************************************************)
(* Control messages (server-webrtc.js handleControlMessage, websocket.js    *)
(* handleMessage)                                                          *)
(***************************************************************************)
ControlTypes == {"mousemove", "click", "mousedown", "mouseup", "scroll",
                 "keypress", "type"}

\* The calls made on the input module (src/input.js) for a control message.
InputCalls(type) ==
    CASE type = "mousemove" -> <<"moveMouse">>
      [] type = "click"     -> <<"mouseClick">>
      [] type = "mousedown" -> <<"moveMouse", "mouseDown">>
      [] type = "mouseup"   -> <<"mouseUp">>
      [] type = "scroll"    -> <<"mouseScroll">>
      [] type = "keypress"  -> <<"keyTap">>
      [] type = "type"      -> <<"typeString">>
      [] OTHER              -> <<>>

brokerControlForwardsToHost(c, type) ==
    /\ mode = "webrtc"
    /\ IsOpen(c)
    /\ out' = IF hostConnection # NoConn
              THEN <<Send(hostConnection, [type |-> type])>> ELSE <<>>
    /\ last' = [op |-> "control", conn |-> c, type |-> type,
                injected |-> InputCalls(type)]
    /\ UNCHANGED <<authVars, mode, conn, brokerVars, streamVars>>

\* handleMessage of server-webrtc.js, the control cases: handleControlMessage
BrokerControl(c, type) ==
    /\ mode = "webrtc"
    /\ IsOpen(c)
    /\ out' = <<>>
    /\ last' = [op |-> "control", conn |-> c, type |-> type,
                injected |-> InputCalls(type)]
    /\ UNCHANGED <<authVars, mode, conn, brokerVars, streamVars>>

\* handleMessage of websocket.js, the control cases
StreamControl(c, type) ==
    /\ mode = "screenshot"
    /\ IsOpen(c)
    /\ out' = <<>>
    /\ last' = [op |-> "control", conn |-> c, type |-> type,
                injected |-> InputCalls(type)]
    /\ UNCHANGED <<authVars, mode, conn, brokerVars, streamVars>>

NextControl ==
    \/ \E p \in Peers : BrokerConnect(p.remoteAddress, p.token)
    \/ \E p \in Peers : StreamConnect(p.remoteAddress, p.token)
    \/ \E c \in Conns : TransportDown(c)
    \/ \E c \in Conns : RegisterHost(c)
    \/ \E c \in Conns : RegisterViewer(c)
    \/ \E c \in Conns, type \in ControlTypes : BrokerControl(c, type)
    \/ \E c \in Conns, type \in ControlTypes : StreamControl(c, type)
    \/ \E c \in Conns : BrokerClose(c)
    \/ \E c \in Conns : StreamClose(c)

SpecControl == (\E m \in Modes : Serving(m)) /\ [][NextControl]_vars

(***************************************************************************)
(* Signaling server (src/signaling.js, class SignalingServer), with an     *)
(* asynchronous offer handler installed as this.onOffer.                    *)
(***************************************************************************)
\* wss.on('connection') of signaling.js: every connection is accepted
SignalingConnect ==
    LET c == NewConn
    IN  /\ mode = "signaling"
        /\ \E d \in Conns : conn[d] = "none"
        /\ conn' = [conn EXCEPT ![c] = "open"]
        /\ clients' = clients \cup {c}
        /\ out' = <<Send(c, [type |-> "welcome", clientId |-> c])>>
        /\ last' = [op |-> "connect", conn |-> c]
        /\ UNCHANGED <<authVars, mode, brokerVars, isStreaming, streamTimer, timers,
                       capturing, frameCount, wssOpen, pendingOffers>>

SignalTypes == {"offer", "ice-candidate", "mousedown", "ping", "unknown"}

\* ws.on('message') of signaling.js up to the first await of handleMessage: an
\* offer suspends at "await this.onOffer(...)", every other message is handled
\* to its end.
SignalingMessage(c, type) ==
    /\ mode = "signaling"
    /\ IsOpen(c)
    /\ (type = "offer" /\ c \in clients) => pendingOffers[c] < MaxPending
    /\ pendingOffers' = IF type = "offer" /\ c \in clients
                        THEN [pendingOffers EXCEPT ![c] = @ + 1]
                        ELSE pendingOffers
    /\ out' = IF type = "ping" /\ c \in clients
              THEN <<Send(c, [type |-> "pong"])>>
              ELSE <<>>
    /\ last' = [op |-> "signal", conn |-> c, type |-> type,
                injected |-> IF c \in clients THEN InputCalls(type) ELSE <<>>]
    /\ UNCHANGED <<authVars, mode, conn, brokerVars, clients, isStreaming, streamTimer,
                   timers, capturing, frameCount, wssOpen>>

\* handleMessage of signaling.js after "await this.onOffer(...)": the handler
\* has produced an answer, or nothing (or has thrown, which the caller logs).
OfferHandled(c, answer) ==
    /\ mode = "signaling"
    /\ pendingOffers[c] > 0
    /\ pendingOffers' = [pendingOffers EXCEPT ![c] = @ - 1]
    /\ out' = IF answer # Null /\ IsOpen(c)
              THEN <<Send(c, [type |-> "answer", sdp |-> answer])>>
              ELSE <<>>
    /\ last' = [op |-> "answered", conn |-> c, answer |-> answer]
    /\ UNCHANGED <<authVars, mode, conn, brokerVars, clients, isStreaming, streamTimer,
                   timers, capturing, frameCount, wssOpen>>

\* ws.on('error') of signaling.js; the socket is then closed
SignalingError(c) ==
    /\ mode = "signaling"
    /\ IsOpen(c)
    /\ conn' = [conn EXCEPT ![c] = "closing"]
    /\ clients' = clients \ {c}
    /\ last' = [op |-> "error", conn |-> c]
    /\ out' = <<>>
    /\ UNCHANGED <<authVars, mode, brokerVars, isStreaming, streamTimer, timers,
                   capturing, frameCount, wssOpen, pendingOffers>>

\* ws.on('close') of signaling.js
SignalingClose(c) ==
    /\ mode = "signaling"
    /\ conn[c] = "closing"
    /\ conn' = [conn EXCEPT ![c] = "closed"]
    /\ clients' = clients \ {c}
    /\ last' = [op |-> "close", conn |-> c]
    /\ out' = <<>>
    /\ UNCHANGED <<authVars, mode, brokerVars, isStreaming, streamTimer, timers,
                   capturing, frameCount, wssOpen, pendingOffers>>

Answers == {"v=0 answer", Null}

NextSignaling ==
    \/ SignalingConnect
    \/ \E c \in Conns : TransportDown(c)
    \/ \E c \in Conns, type \in SignalTypes : SignalingMessage(c, type)
    \/ \E c \in Conns, answer \in Answers : OfferHandled(c, answer)
    \/ \E c \in Conns : SignalingError(c)
    \/ \E c \in Conns : SignalingClose(c)

SpecSignaling == Serving("signaling") /\ [][NextSignaling]_vars

(***************************************************************************)
(* Sessions that end while their connections are up.                       *)
(***************************************************************************)
\* The state one millisecond after start: the PIN is displayed and a remote
\* peer has logged in twice, at 0 and at 1 ms; history is kept.
LoggedIn(m) ==
    /\ currentPin = "100000"
    /\ pinHash = hashPin("100000")
    /\ now = 1
    /\ sessions = [token \in Tokens |->
                      IF token = 1 THEN [createdAt |-> 0, ip |-> "192.168.1.20"]
                      ELSE IF token = 2 THEN [createdAt |-> 1, ip |-> "192.168.1.20"]
                      ELSE NoSession]
    /\ nextToken = IF MaxTokens >= 2 THEN 3 ELSE 2
    /\ attemptTracker = [ip \in Addrs |-> NoEntry]
    /\ hist = [fails |-> [ip \in Addrs |-> 0],
               lastFailAt |-> [ip \in Addrs |-> 0],
               issuedAt |-> [token \in Tokens |->
                               IF token = 1 THEN 0 ELSE IF token = 2 THEN 1 ELSE -1],
               loggedOut |-> {},
               indexed |-> FALSE,
               registeredAs |-> [c \in Conns |-> -1],
               observed |-> {"admission"},
               admittedWith |-> [c \in Conns |-> NoToken],
               presence |-> [c \in Conns |-> "unknown"],
               formerHosts |-> {},
               streak |-> [ra \in SocketAddrs |-> 0]]
    /\ last = [op |-> "start"]
    /\ mode = m
    /\ conn = [c \in Conns |-> "none"]
    /\ hostConnection = NoConn
    /\ viewerConnections = <<>>
    /\ clients = {}
    /\ isStreaming = FALSE
    /\ streamTimer = NoTimer
    /\ timers = {}
    /\ capturing = 0
    /\ frameCount = 0
    /\ wssOpen = TRUE
    /\ pendingOffers = [c \in Conns |-> 0]
    /\ out = <<>>

\* A token no connection has been accepted with.
Unused(token) == \A c \in Conns : hist.admittedWith[c] # token

\* Remote peers connect, one connection per session, and use their
\* connections while the sessions are logged out, expire and are swept.
NextRevoke ==
    \/ \E token \in Tokens : Unused(token) /\ BrokerConnect("192.168.1.20", token)
    \/ \E token \in Tokens : Unused(token) /\ StreamConnect("192.168.1.20", token)
    \/ \E c \in Conns : RegisterHost(c)
    \/ \E c \in Conns : RegisterViewer(c)
    \/ \E c \in Conns : Offer(c, "v=0 a")
    \/ \E c \in Conns : BrokerControl(c, "click")
    \/ \E c \in Conns : StreamControl(c, "click")
    \/ CaptureDone("jpeg", 0, TRUE)
    \/ \E t \in TimerIds : TimerFires(t)
    \/ \E token \in Tokens : Logout(token)
    \/ Tick(SESSION_DURATION)
    \/ Cleanup

SpecRevoke == (\E m \in Modes : LoggedIn(m)) /\ [][NextRevoke]_vars

(***************************************************************************)
(* Either entry point, from the first connection on.                       *)
(***************************************************************************)
InitWS == \E m \in Modes : Serving(m)

NextWS ==
    \/ \E ra \in SocketAddrs, token \in Tokens \cup {NoToken} : BrokerConnect(ra, token)
    \/ HandleMessage({"v=0 a"}, {"candidate:1"}, {0})
    \/ \E c \in Conns : BrokerClose(c)
    \/ NextStream

SpecWS == InitWS /\ [][NextWS]_vars

(***************************************************************************)
(* Properties of the auth API.                                             *)
(***************************************************************************)
NotLocked(ip) == ~IsLocked(attemptTracker[ip], now)

\* C1: for an address that is not locked out, verifyPin(p, addr) succeeds
\* exactly when p is the PIN returned by the most recent generatePin; once
\* generatePin returns a different PIN, the previous one no longer verifies
\* from any address.
C1_VerifyIffCurrentPin ==
    [][ /\ (last'.op = "auth" /\ NotLocked(last'.clientIP))
            => (last'.ret.success <=> last'.pin = currentPin)
        /\ (last'.op = "generatePin" /\ currentPin # Null /\ currentPin' # currentPin)
            => \A ip \in Addrs :
                 ~verifyPin(attemptTracker', pinHash', currentPin, ip, now').ret.success
      ]_vars

\* A PIN other than the current one has just been refused at an address that is
\* not locked, after an earlier login had succeeded.
C1_Witness ==
    /\ last.op = "auth"
    /\ last.pin \in Pins \ {currentPin}
    /\ ~last.ret.success /\ ~last.ret.locked
    /\ \E token \in Tokens : sessions[token] # NoSession

\* C2: after 5 consecutive failed verifyPin calls from an address, every call
\* from it before 5 minutes have passed is refused as locked, the correct PIN
\* included; from then on the correct PIN succeeds.
C2_LockoutAfterFiveFailures ==
    \A ip \in Addrs :
        (hist.fails[ip] >= 5 /\ currentPin # Null) =>
            IF now < hist.lastFailAt[ip] + 5 * 60 * 1000
            THEN \A p \in Candidates :
                    LET r == verifyPin(attemptTracker, pinHash, p, ip, now).ret
                    IN  r.locked /\ ~r.success /\ ~r.thrown
            ELSE verifyPin(attemptTracker, pinHash, currentPin, ip, now).ret.success

\* The correct PIN has just been refused as locked.
C2_Witness ==
    /\ last.op = "auth"
    /\ last.pin = currentPin
    /\ last.ret.locked
    /\ hist.fails[last.clientIP] >= 5

\* C4: GET /api/auth/pin answers with the PIN only when the request comes from
\* the local machine; a remote peer is refused with 403 whatever it sends.
C4_PinOnlyToLocalMachine ==
    (last.op = "pin" /\ ~isLocalIP(last.remoteAddress)) =>
        (last.status = 403 /\ last.pin = Null)

\* C7: a session is created only by a POST /api/auth whose verifyPin call
\* succeeded; a failed or locked-out verification creates none.
C7_SessionOnlyAfterSuccess ==
    [][ /\ \A token \in Tokens :
              (sessions[token] = NoSession /\ sessions'[token] # NoSession) =>
                  /\ last'.op = "auth"
                  /\ last'.token = token
                  /\ verifyPin(attemptTracker, pinHash, last'.pin,
                               last'.clientIP, now).ret.success
        /\ (last'.op = "auth" /\ ~last'.ret.success) =>
               (sessions' = sessions /\ last'.token = NoToken)
      ]_vars

\* A verification has just failed while a session from an earlier success exists.
C7_Witness ==
    /\ last.op = "auth"
    /\ last.status = 401
    /\ \E token \in Tokens : sessions[token] # NoSession

\* C8: a failed verifyPin call from one address changes the outcome of no
\* verifyPin call from any other address.
C8_LockoutPerAddress ==
    [][ (last'.op = "auth" /\ ~last'.ret.success) =>
            \A ip \in Addrs \ {last'.clientIP}, p \in Candidates :
                verifyPin(attemptTracker', pinHash', p, ip, now').ret
                    = verifyPin(attemptTracker, pinHash, p, ip, now).ret
      ]_vars

\* One address is locked out and a login from another address has just succeeded.
C8_Witness ==
    /\ last.op = "auth"
    /\ last.ret.success
    /\ \E ip \in Addrs \ {last.clientIP} : IsLocked(attemptTracker[ip], now)

\* C26: a POST /api/auth from an address that is locked out is refused as
\* locked, with the seconds that remain, and changes nothing: the attempt
\* tracker (count and lockedUntil of every address), the sessions and the PIN
\* are as before.
C26_LockedCallConsumesNothing ==
    [][ (last'.op = "auth" /\ IsLocked(attemptTracker[last'.clientIP], now)) =>
          /\ last'.ret.locked /\ ~last'.ret.success
          /\ last'.status = 401
          /\ last'.ret.remainingSeconds >= 1
          /\ attemptTracker' = attemptTracker
          /\ sessions' = sessions
          /\ nextToken' = nextToken
          /\ pinHash' = pinHash /\ currentPin' = currentPin
      ]_vars

\* A wrong PIN has just been refused at an address locked at an earlier instant.
C26_Witness ==
    /\ last.op = "auth"
    /\ last.pin \in Pins \ {currentPin}
    /\ last.ret.locked
    /\ last.ret.remainingSeconds >= 1
    /\ attemptTracker[last.clientIP].lockedUntil < now + LOCKOUT_DURATION

\* C27: at an address that is not locked out, the k-th mismatch in a row is
\* reported as an invalid PIN with 5 - k attempts remaining for k = 1..4; the
\* 5th is reported as locked and sets lockedUntil to now + 5 minutes.
C27_AttemptsCountDown ==
    [][ (/\ last'.op = "auth"
         /\ ~IsLocked(attemptTracker[last'.clientIP], now)
         /\ last'.pin \in Pins \ {currentPin}
         /\ hist.fails[last'.clientIP] < 5) =>
          LET k == hist.fails[last'.clientIP] + 1
          IN  IF k <= 4
              THEN /\ last'.status = 401
                   /\ ~last'.ret.locked /\ ~last'.ret.success
                   /\ last'.ret.remainingAttempts = 5 - k
                   /\ ~IsLocked(attemptTracker'[last'.clientIP], now')
              ELSE /\ last'.status = 401
                   /\ last'.ret.locked /\ ~last'.ret.success
                   /\ attemptTracker'[last'.clientIP].lockedUntil = now + 5 * 60 * 1000
      ]_vars

\* The 5th mismatch in a row, made after the clock had advanced, has just
\* locked the address.
C27_Witness ==
    /\ last.op = "auth"
    /\ last.ret.locked
    /\ last.ret.remainingSeconds = -1
    /\ hist.fails[last.clientIP] = 5
    /\ now > 0
    /\ attemptTracker[last.clientIP].lockedUntil = now + LOCKOUT_DURATION

\* C28: a successful POST /api/auth deletes the tracker entry of the address,
\* so the next mismatch from it is reported with 4 attempts remaining.
C28_SuccessClearsTracker ==
    [][ /\ (last'.op = "auth" /\ last'.ret.success) =>
              /\ attemptTracker'[last'.clientIP] = NoEntry
              /\ \A p \in Pins \ {currentPin} :
                    verifyPin(attemptTracker', pinHash', p, last'.clientIP, now')
                        .ret.remainingAttempts = 4
        /\ (/\ last'.op = "auth"
            /\ last'.pin \in Pins \ {currentPin}
            /\ hist.fails[last'.clientIP] = 0
            /\ \E token \in Tokens : sessions[token].ip = last'.clientIP)
              => last'.ret.remainingAttempts = 4
      ]_vars

\* The first mismatch after a successful login from the same address has
\* just been reported with 4 attempts remaining.
C28_Witness ==
    /\ last.op = "auth"
    /\ ~last.ret.success
    /\ last.ret.remainingAttempts = 4
    /\ hist.fails[last.clientIP] = 1
    /\ \E token \in Tokens : sessions[token].ip = last.clientIP

\* C29: once the clock is past the lockedUntil of an address, its next
\* mismatch is reported as an invalid PIN with 4 attempts remaining and does
\* not lock the address again.
C29_ExpiredLockoutStartsOver ==
    [][ (/\ last'.op = "auth"
         /\ attemptTracker[last'.clientIP].lockedUntil # 0
         /\ now > attemptTracker[last'.clientIP].lockedUntil
         /\ last'.pin \in Pins \ {currentPin}) =>
          /\ ~last'.ret.locked
          /\ last'.ret.remainingAttempts = 4
          /\ ~IsLocked(attemptTracker'[last'.clientIP], now')
      ]_vars

\* C30: every POST /api/auth that does not succeed is answered with status 401
\* and a hint (locked, or the attempts remaining).
C30_FailureIsStructured ==
    (last.op = "auth" /\ ~last.ret.success) =>
        /\ last.status = 401
        /\ (last.ret.locked \/ last.ret.remainingAttempts >= 0)

(***************************************************************************)
(* Properties of connection admission and of the signaling broker.         *)
(***************************************************************************)
MessageOps == {"register-host", "register-viewer", "offer", "answer", "ice-candidate"}

Registered(c) ==
    \/ c = hostConnection
    \/ c \in SeqToSet(viewerConnections)
    \/ c \in clients

\* C3: a remote connection without a token, or with a token for which
\* validateSession is false, is closed with status 4001 and nothing else
\* happens: it is never registered as host or viewer, never enters the
\* streamer's client set, starts no streaming and none of its messages or
\* events is ever handled. A connection from a local address is accepted
\* without a token.
C3_UnauthorizedNeverAdmitted ==
    [][ /\ (/\ last'.op = "connect"
            /\ ~isLocalIP(last'.remoteAddress)
            /\ (last'.token = NoToken
                \/ ~validateSession(sessions, last'.token, now).ret))
           => /\ conn'[last'.conn] = "rejected"
              /\ out' = <<Send(last'.conn, [type |-> "close", code |-> 4001])>>
              /\ UNCHANGED <<brokerVars, streamVars>>
        /\ (last'.op = "connect" /\ isLocalIP(last'.remoteAddress))
           => conn'[last'.conn] = "open"
        /\ \A c \in Conns :
              conn[c] = "rejected" =>
                  /\ conn'[c] = "rejected"
                  /\ ~Registered(c)'
                  /\ (("conn" \in DOMAIN last' /\ last'.op # "connect")
                         => last'.conn # c)
      ]_vars

\* A remote connection presenting a token has just been refused while an
\* earlier connection is registered.
C3_Witness ==
    /\ last.op = "connect"
    /\ ~isLocalIP(last.remoteAddress)
    /\ last.token # NoToken
    /\ conn[last.conn] = "rejected"
    /\ \E c \in Conns : IsOpen(c) /\ Registered(c)

ForwardedToHost(m) ==
    \/ m.type = "offer"
    \/ (m.type = "ice-candidate" /\ "viewerId" \in DOMAIN m)

\* C9: register-host from a connection makes it the host also when another
\* host is present; the replaced host is the host no more and becomes it again
\* only by a register-host of its own, and every offer and every viewer
\* ice-candidate that is forwarded goes to the host of that moment.
C9_HostReplaced ==
    [][ /\ last'.op = "register-host" =>
              /\ hostConnection' = last'.conn
              /\ (last'.replaced # last'.conn => hostConnection' # last'.replaced)
        /\ hostConnection' # hostConnection =>
              \/ (last'.op = "register-host" /\ hostConnection' = last'.conn)
              \/ (last'.op = "close" /\ last'.conn = hostConnection
                     /\ hostConnection' = NoConn)
        /\ \A i \in 1..Len(out') :
              ForwardedToHost(out'[i].msg) =>
                  (out'[i].to = hostConnection' /\ hostConnection' = hostConnection)
      ]_vars

\* A connection has just taken the host role from another one that is still
\* connected.
C9_Witness ==
    /\ last.op = "register-host"
    /\ last.replaced \notin {NoConn, last.conn}
    /\ IsOpen(last.replaced)
    /\ hostConnection = last.conn

\* C10: the connection holding the host role is never in the viewer collection.
C10_HostNotAViewer ==
    hostConnection # NoConn => hostConnection \notin SeqToSet(viewerConnections)

\* The number of messages of type t that the last handler sent to connection c.
Sent(o, c, t) == Cardinality({i \in 1..Len(o) : o[i].to = c /\ o[i].msg.type = t})

\* C11: a viewer that registers while no host is present is acknowledged with
\* hostReady = false and nothing else is sent; a host appears only by a
\* register-host, and that step sends each registered viewer host-ready exactly
\* once; no other step sends host-ready to anyone.
C11_HostReadyOnceAtRegistration ==
    [][ /\ (last'.op = "register-viewer" /\ hostConnection = NoConn)
            => out' = <<Send(last'.conn, [type |-> "registered", role |-> "viewer",
                                          hostReady |-> FALSE])>>
        /\ (hostConnection = NoConn /\ hostConnection' # NoConn)
            => last'.op = "register-host"
        /\ last'.op = "register-host"
            => \A v \in Conns :
                  Sent(out', v, "host-ready") =
                      IF v \in SeqToSet(viewerConnections) /\ IsOpen(v) THEN 1 ELSE 0
        /\ last'.op # "register-host"
            => \A v \in Conns : Sent(out', v, "host-ready") = 0
      ]_vars

\* A host has just registered while none was present, and two waiting viewers
\* were each sent host-ready.
C11_Witness ==
    /\ last.op = "register-host"
    /\ last.replaced = NoConn
    /\ \E v, w \in SeqToSet(viewerConnections) \ {hostConnection} :
           /\ v # w
           /\ Sent(out, v, "host-ready") = 1
           /\ Sent(out, w, "host-ready") = 1

IsViewer(c) == c \in SeqToSet(viewerConnections)

\* C12: a viewer's offer or ice-candidate is sent on to the current host, and
\* the host's answer or ice-candidate to the viewer at the index it names, as
\* one message with the sdp / candidate of the message received; when that
\* host or viewer is absent the handler sends nothing to anyone.
C12_RelayedUnmodified ==
    [][ LET c == last'.conn
            named == IF last'.viewerId + 1 \in 1..Len(viewerConnections)
                     THEN viewerConnections[last'.viewerId + 1] ELSE NoConn
        IN  /\ (last'.op = "offer" /\ hostConnection = NoConn) => out' = <<>>
            /\ (last'.op = "offer" /\ IsViewer(c) /\ hostConnection # NoConn)
                => /\ Len(out') = 1
                   /\ out'[1].to = hostConnection
                   /\ out'[1].msg.type = "offer"
                   /\ out'[1].msg.sdp = last'.sdp
            /\ (last'.op = "answer" /\ c = hostConnection)
                => IF named = NoConn THEN out' = <<>>
                   ELSE out' = <<Send(named, [type |-> "answer", sdp |-> last'.sdp])>>
            /\ (last'.op = "ice-candidate" /\ c = hostConnection)
                => IF named = NoConn THEN out' = <<>>
                   ELSE out' = <<Send(named, [type |-> "ice-candidate",
                                              candidate |-> last'.candidate])>>
            /\ (last'.op = "ice-candidate" /\ c # hostConnection /\ hostConnection = NoConn)
                => out' = <<>>
            /\ (last'.op = "ice-candidate" /\ c # hostConnection /\ IsViewer(c)
                    /\ hostConnection # NoConn)
                => /\ Len(out') = 1
                   /\ out'[1].to = hostConnection
                   /\ out'[1].msg.type = "ice-candidate"
                   /\ out'[1].msg.candidate = last'.candidate
      ]_vars

\* The host's answer has just been relayed to the second of two viewers.
C12_Witness ==
    /\ last.op = "answer"
    /\ last.conn = hostConnection
    /\ Len(viewerConnections) >= 2
    /\ last.viewerId = 1
    /\ out = <<Send(viewerConnections[2], [type |-> "answer", sdp |-> "v=0 b"])>>
    /\ viewerConnections[2] # hostConnection

\* C13: an answer or ice-candidate that the host addresses to the index a
\* connected viewer registered with (first registered = 0, second = 1) is
\* delivered to that viewer and to no one else, also after a viewer that
\* registered earlier has disconnected.
C13_AddressedViewerStillReached ==
    [][ (/\ last'.op \in {"answer", "ice-candidate"}
         /\ last'.conn = hostConnection
         /\ ~IsViewer(hostConnection))
            => \A v \in Conns :
                  (IsViewer(v) /\ hist.registeredAs[v] = last'.viewerId)
                      => (Len(out') = 1 /\ out'[1].to = v)
      ]_vars

\* C17: the index of a registered viewer is the index it registered with (first
\* registered = 0), for as long as it is connected.
C17_ViewerIndexFixed ==
    \A c \in Conns : IsViewer(c) => getViewerId(c) = hist.registeredAs[c]

\* C18: a connection is sent an answer only by the handling of an answer that
\* the current host sent and that names the index of that connection; an
\* answer naming an index with no viewer is dropped.
C18_AnswerOnlyFromHost ==
    [][ /\ \A i \in 1..Len(out') :
              out'[i].msg.type = "answer" =>
                  /\ last'.op = "answer"
                  /\ last'.conn = hostConnection
                  /\ out'[i].to = getViewerById(last'.viewerId)
        /\ (last'.op = "answer" /\ getViewerById(last'.viewerId) = NoConn)
              => out' = <<>>
      ]_vars

\* C19: every offer sent on to the host carries a viewerId that the
\* viewer-by-index lookup resolves to the connection the offer came from; with
\* no host present the offer is dropped and nothing is sent.
C19_OfferCarriesSenderIndex ==
    [][ /\ \A i \in 1..Len(out') :
              out'[i].msg.type = "offer" =>
                  /\ last'.op = "offer"
                  /\ out'[i].to = hostConnection
                  /\ getViewerById(out'[i].msg.viewerId) = last'.conn
        /\ (last'.op = "offer" /\ hostConnection = NoConn) => out' = <<>>
      ]_vars

\* C20: an ice-candidate from the current host goes to the viewer at the index
\* it names and to no one else; one from any other connection goes to the host
\* and to no one else, with the sender's index among the viewers attached (-1
\* when the sender is no viewer); when the named viewer, or the host, is
\* absent nothing is sent.
C20_IceCandidateByRole ==
    [][ last'.op = "ice-candidate" =>
          LET c == last'.conn
          IN  IF c = hostConnection
              THEN IF getViewerById(last'.viewerId) # NoConn
                   THEN /\ Len(out') = 1
                        /\ out'[1].to = getViewerById(last'.viewerId)
                        /\ out'[1].msg.type = "ice-candidate"
                        /\ "viewerId" \notin DOMAIN out'[1].msg
                   ELSE out' = <<>>
              ELSE IF hostConnection # NoConn
                   THEN /\ Len(out') = 1
                        /\ out'[1].to = hostConnection
                        /\ out'[1].msg.type = "ice-candidate"
                        /\ IF IsViewer(c)
                           THEN getViewerById(out'[1].msg.viewerId) = c
                           ELSE out'[1].msg.viewerId = -1
                   ELSE out' = <<>>
      ]_vars

\* The host's ice-candidate has just been sent to the second of two viewers,
\* neither of which is the host.
C20_Witness ==
    /\ last.op = "ice-candidate"
    /\ last.conn = hostConnection
    /\ ~IsViewer(hostConnection)
    /\ Len(viewerConnections) = 2
    /\ last.viewerId = 1
    /\ Len(out) = 1
    /\ out[1].to = viewerConnections[2]
    /\ out[1].msg.candidate = last.candidate

\* C21: the close of the current host empties the host slot and sends
\* host-disconnected once to every registered viewer whose transport is open
\* and to no one else; the close of a viewer removes it from the viewer
\* collection and notifies the host if one is present; after any close the
\* closing connection is neither the host nor a viewer, and every other viewer
\* stays registered.
C21_CloseUnregisters ==
    [][ last'.op = "close" =>
          LET c == last'.conn
          IN  /\ hostConnection' # c
              /\ SeqToSet(viewerConnections') = SeqToSet(viewerConnections) \ {c}
              /\ c = hostConnection =>
                    /\ hostConnection' = NoConn
                    /\ \A v \in Conns :
                          Sent(out', v, "host-disconnected") =
                              IF IsViewer(v) /\ IsOpen(v) THEN 1 ELSE 0
                    /\ \A i \in 1..Len(out') : out'[i].msg.type = "host-disconnected"
              /\ (c # hostConnection /\ IsViewer(c)) =>
                    /\ hostConnection' = hostConnection
                    /\ out' = IF hostConnection # NoConn
                              THEN <<Send(hostConnection,
                                          [type |-> "notification", level |-> "warning"])>>
                              ELSE <<>>
              /\ (c # hostConnection /\ ~IsViewer(c)) =>
                    (hostConnection' = hostConnection /\ out' = <<>>)
      ]_vars

\* The host has just closed and both registered viewers were told.
C21_Witness ==
    /\ last.op = "close"
    /\ hostConnection = NoConn
    /\ Len(viewerConnections) = 2
    /\ \A v \in SeqToSet(viewerConnections) : Sent(out, v, "host-disconnected") = 1

\* C22: when the close of the host sends host-disconnected, the host slot still
\* names the departing host while the notification is sent.
C22_NotifiedBeforeSlotCleared ==
    (last.op = "close" /\ mode = "webrtc"
        /\ \E i \in 1..Len(out) : out[i].msg.type = "host-disconnected")
            => last.slot = last.conn

\* C23: register-host puts the sender in the host slot; the first message sent
\* is registered / role = host to the sender, and it is followed by one
\* host-ready for every registered viewer whose transport is open, and by
\* nothing else.
C23_RegisterHostAckThenNotify ==
    [][ last'.op = "register-host" =>
          LET c == last'.conn
              ready == {v \in Conns : IsViewer(v) /\ IsOpen(v)}
          IN  /\ hostConnection' = c
              /\ Len(out') = 1 + Cardinality(ready)
              /\ out'[1] = Send(c, [type |-> "registered", role |-> "host"])
              /\ \A i \in 2..Len(out') :
                    /\ out'[i].msg = [type |-> "host-ready"]
                    /\ out'[i].to \in ready
              /\ \A v \in ready : \E i \in 2..Len(out') : out'[i].to = v
      ]_vars

\* A connection has just registered as host in place of another one; of the
\* two registered viewers the one whose transport is down was not notified.
C23_Witness ==
    /\ last.op = "register-host"
    /\ last.replaced \notin {NoConn, last.conn}
    /\ Len(out) = 2
    /\ \E v, w \in SeqToSet(viewerConnections) :
          /\ conn[v] = "open" /\ out[2].to = v
          /\ conn[w] = "closing"

\* C24: register-viewer puts the sender in the viewer collection and sends it
\* registered / role = viewer with hostReady telling whether the host slot is
\* occupied; the host is sent a notification exactly when the slot is
\* occupied; nothing else is sent and the host slot does not change.
C24_RegisterViewerAck ==
    [][ last'.op = "register-viewer" =>
          LET c == last'.conn
          IN  /\ SeqToSet(viewerConnections') = SeqToSet(viewerConnections) \cup {c}
              /\ hostConnection' = hostConnection
              /\ out'[1] = Send(c, [type |-> "registered", role |-> "viewer",
                                    hostReady |-> (hostConnection # NoConn)])
              /\ IF hostConnection # NoConn
                 THEN /\ Len(out') = 2
                      /\ out'[2] = Send(hostConnection,
                                        [type |-> "notification", level |-> "info"])
                 ELSE Len(out') = 1
      ]_vars

\* A second viewer has just registered while a host that is no viewer is
\* present: it was told hostReady = true and the host was notified.
C24_Witness ==
    /\ last.op = "register-viewer"
    /\ hostConnection \notin {NoConn, last.conn}
    /\ ~IsViewer(hostConnection)
    /\ Len(viewerConnections) = 2
    /\ viewerConnections[2] = last.conn
    /\ Len(out) = 2
    /\ out[1].msg.hostReady
    /\ out[2].to = hostConnection

\* C25: a control message makes the input calls of its type and nothing else:
\* no message is sent to the host or to any connection, and the host slot, the
\* viewer collection, the client set and the connections are unchanged.
C25_ControlOnlyInjects ==
    [][ last'.op = "control" =>
          /\ out' = <<>>
          /\ hostConnection' = hostConnection
          /\ viewerConnections' = viewerConnections
          /\ clients' = clients
          /\ conn' = conn
          /\ Len(last'.injected) >= 1
          /\ \A i \in 1..Len(last'.injected) :
                last'.injected[i] \in {"moveMouse", "mouseClick", "mouseDown", "mouseUp",
                                       "mouseScroll", "keyTap", "typeString"}
      ]_vars

\* A registered viewer has just sent mousedown while another connection is the
\* host with its transport open.
C25_Witness ==
    /\ last.op = "control"
    /\ last.type = "mousedown"
    /\ last.injected = <<"moveMouse", "mouseDown">>
    /\ IsViewer(last.conn)
    /\ hostConnection \notin {NoConn, last.conn}
    /\ IsOpen(hostConnection)
    /\ out = <<>>

\* C37: for every registered viewer whose transport is open, the latest
\* message about the host that was delivered to it (registered with hostReady,
\* host-ready or host-disconnected) says "present" exactly when the host slot
\* is not empty.
C37_ViewersKnowHostPresence ==
    \A c \in Conns :
        (IsViewer(c) /\ IsOpen(c)) =>
            /\ hist.presence[c] # "unknown"
            /\ (hist.presence[c] = "present" <=> hostConnection # NoConn)

\* A host was replaced and the replacing host has left: the viewer that
\* watched both was told last that the host is gone.
C37_Witness ==
    /\ last.op = "close"
    /\ hist.formerHosts # {}
    /\ hostConnection = NoConn
    /\ \E c \in Conns :
           /\ IsViewer(c) /\ IsOpen(c)
           /\ hist.presence[c] = "absent"
           /\ Sent(out, c, "host-disconnected") = 1

\* C38: the close of a connection that was the host and has been replaced by
\* a later register-host leaves the host slot as it is and sends
\* host-disconnected to no one.
C38_ReplacedHostClosesSilently ==
    [][ (last'.op = "close" /\ last'.conn \in hist.formerHosts) =>
            /\ hostConnection' = hostConnection
            /\ hostConnection' # last'.conn
            /\ \A v \in Conns : Sent(out', v, "host-disconnected") = 0
      ]_vars

\* A replaced host has just closed while its successor is the host and a
\* viewer with an open transport is registered.
C38_Witness ==
    /\ last.op = "close"
    /\ last.conn \in hist.formerHosts
    /\ hostConnection # NoConn
    /\ IsOpen(hostConnection)
    /\ \E v \in Conns : IsViewer(v) /\ IsOpen(v) /\ v # hostConnection

\* C39: the host slot, the viewer collection and the streamer's client set
\* hold only accepted connections whose close event has not been handled.
C39_NoClosedConnectionRegistered ==
    \A c \in Conns :
        Registered(c) => conn[c] \in {"open", "closing"}

\* The host has just closed while a viewer stays registered: the slot is
\* empty and the viewer was told.
C39_Witness ==
    /\ last.op = "close"
    /\ conn[last.conn] = "closed"
    /\ ~Registered(last.conn)
    /\ \E v \in Conns : IsViewer(v) /\ Sent(out, v, "host-disconnected") = 1

(***************************************************************************)
(* Properties of the frame streamer.                                       *)
(***************************************************************************)
\* The accepted connections whose 'close' event has not been handled yet.
Connected == {c \in Conns : conn[c] \in {"open", "closing"}}

\* C14: while no viewer is connected the streamer is Idle, and a capture is
\* requested only by a step that leaves it Streaming with a viewer in the
\* client set; the connection of a viewer leaves it Streaming (the first one
\* starts a capture), the close of the last viewer leaves it Idle with no
\* timer armed, and nothing else switches it.
C14_StreamingFollowsViewers ==
    [][ /\ (Connected' = {} => ~isStreaming')
        /\ (clients' # {} => isStreaming')
        /\ (capturing' > capturing => (isStreaming' /\ clients' # {}))
        /\ (last'.op = "connect" /\ conn'[last'.conn] = "open")
              => /\ isStreaming'
                 /\ (~isStreaming => capturing' = capturing + 1)
        /\ (last'.op = "close" /\ clients' = {})
              => (~isStreaming' /\ streamTimer' = NoTimer)
        /\ (isStreaming' # isStreaming) => last'.op \in {"connect", "close"}
      ]_vars

\* The last of two viewers has just disconnected and the streamer is Idle
\* while a capture requested earlier is still in flight.
C14_Witness ==
    /\ last.op = "close"
    /\ Cardinality({c \in Conns : conn[c] = "closed"}) >= 2
    /\ Connected = {}
    /\ ~isStreaming
    /\ capturing > 0

\* C15: the delay sendFrame passes to setTimeout is max(1, frameInterval -
\* elapsed): at least 1 ms, never negative, whatever the capture took.
C15_DelayAtLeastOne ==
    last.op = "capture" =>
        /\ last.delay >= 1
        /\ last.delay >= 33 - last.elapsed
        /\ (last.delay = 1 \/ last.delay = 33 - last.elapsed)

\* A capture that took longer than the frame interval has just completed and
\* the next cycle was scheduled 1 ms ahead.
C15_Witness ==
    /\ last.op = "capture"
    /\ last.elapsed > FRAME_INTERVAL
    /\ last.scheduled
    /\ streamTimer \in timers
    /\ last.delay = 1

\* C16: whenever a viewer is in the client set the pacing loop is running: a
\* capture is in flight or a next cycle is scheduled.
C16_LoopRunsWhileViewers ==
    clients # {} => (capturing > 0 \/ timers # {})

\* C31: a cycle whose capture failed or returned nothing sends nothing and
\* leaves the frame counter alone, it does not change the Streaming state, and
\* while the streamer is Streaming it arms the timer of the next cycle.
C31_FailedCaptureIsSkipped ==
    [][ (last'.op = "capture" /\ last'.frame = Null) =>
            /\ out' = <<>>
            /\ frameCount' = frameCount
            /\ isStreaming' = isStreaming
            /\ clients' = clients
            /\ (clients # {} =>
                   /\ isStreaming'
                   /\ last'.scheduled
                   /\ streamTimer' \in timers' \ timers)
      ]_vars

\* A capture has failed while a viewer is connected and frames were counted
\* before: the next cycle is scheduled and the count is kept.
C31_Witness ==
    /\ last.op = "capture"
    /\ last.frame = Null
    /\ clients # {}
    /\ frameCount > 0
    /\ isStreaming
    /\ streamTimer \in timers

\* The number of times payload was sent to connection c by the last handler.
SentPayload(o, c, payload) ==
    Cardinality({i \in 1..Len(o) : o[i].to = c /\ o[i].msg = payload})

\* C32: a frame that a cycle produced is sent exactly once to every member of
\* the client set whose transport is open, and to no other connection.
C32_FrameOncePerOpenClient ==
    (last.op = "capture" /\ last.frame # Null) =>
        /\ Len(out) = Cardinality({c \in clients : IsOpen(c)})
        /\ \A c \in Conns :
               SentPayload(out, c, last.frame) = IF c \in clients /\ IsOpen(c) THEN 1 ELSE 0

\* A frame has been broadcast while one client's transport was open, another
\* client's transport was down and a third connection had left the set.
C32_Witness ==
    /\ last.op = "capture"
    /\ last.frame # Null
    /\ \E c \in clients : IsOpen(c) /\ SentPayload(out, c, last.frame) = 1
    /\ \E c \in clients : ~IsOpen(c)
    /\ \E c \in Conns \ clients : conn[c] = "closed"

\* C33: once stopStreaming has run and startStreaming has not run again, no
\* capture is requested, no frame is broadcast, and a cycle that was in flight
\* arms no timer.
C33_StopIsEffective ==
    [][ (~isStreaming /\ ~isStreaming') =>
            /\ capturing' <= capturing
            /\ timers' \subseteq timers
            /\ (last'.op = "capture" => out' = <<>>)
      ]_vars

\* C34: the handling of a message of a connection begins only when the
\* handling of every earlier message of that connection has completed.
C34_HandledOneAtATime ==
    [][ last'.op = "signal" => pendingOffers[last'.conn] = 0 ]_vars

\* C35: at most one pacing loop is active: the captures in flight and the
\* pending cycle timers number at most one.
C35_OneLoop ==
    capturing + Cardinality(timers) <= 1

\* An accepted remote connection whose session is no longer valid.
Revoked(c) ==
    /\ IsOpen(c)
    /\ hist.admittedWith[c] # NoToken
    /\ ~validateSession(sessions, hist.admittedWith[c], now).ret

\* C36: a logout, the passing of time and the sweep leave every connection,
\* the registry and the client set as they are, and a remote connection whose
\* session has ended still gets every frame and every host-ready broadcast,
\* has its offers forwarded to the host and its control commands injected.
C36_TokenCheckedAtConnectOnly ==
    [][ /\ last'.op \in {"logout", "tick", "cleanup"} =>
               UNCHANGED <<conn, hostConnection, viewerConnections, clients, isStreaming>>
        /\ \A c \in Conns : Revoked(c) =>
               /\ (last'.op = "capture" /\ c \in clients)
                      => SentPayload(out', c, last'.frame) = 1
               /\ (last'.op = "register-host" /\ IsViewer(c))
                      => Sent(out', c, "host-ready") = 1
               /\ (last'.op = "offer" /\ last'.conn = c /\ hostConnection # NoConn)
                      => Sent(out', hostConnection, "offer") = 1
               /\ (last'.op = "control" /\ last'.conn = c)
                      => last'.injected = <<"mouseClick">>
      ]_vars

\* A frame has just been sent to two viewers, one whose session had expired
\* and one whose session had been logged out.
C36_Witness ==
    /\ last.op = "capture"
    /\ \E c, d \in clients :
           /\ Revoked(c) /\ Revoked(d)
           /\ hist.admittedWith[c] \in hist.loggedOut
           /\ hist.admittedWith[d] \notin hist.loggedOut
           /\ SentPayload(out, c, last.frame) = 1
           /\ SentPayload(out, d, last.frame) = 1

\* A wrong PIN was compared: the call neither succeeded nor threw nor refused
\* a locked address.
Mismatch(ret) ==
    ~ret.success /\ ~ret.thrown /\ ~(ret.locked /\ ret.remainingSeconds >= 0)

\* C40: POST /api/auth counts against the first X-Forwarded-For entry when
\* the header is there and against the socket address otherwise: the entry
\* of no other address changes, a wrong PIN adds one to the count of that
\* address, and the lock that answers the request is that address's lock.
C40_CountedByForwardedAddress ==
    [][ last'.op = "auth" =>
            LET counted == IF last'.xff # NoHeader THEN Head(last'.xff)
                           ELSE last'.remoteAddress
            IN  /\ last'.clientIP = counted
                /\ \A ip \in Addrs \ {counted} : attemptTracker'[ip] = attemptTracker[ip]
                /\ Mismatch(last'.ret) =>
                       attemptTracker'[counted].count = attemptTracker[counted].count + 1
                /\ (last'.ret.locked /\ last'.ret.remainingSeconds >= 0)
                       <=> (IsLocked(attemptTracker[counted], now) /\ ~last'.ret.thrown)
      ]_vars

\* No login has succeeded, and one remote peer has had more than five wrong
\* PINs compared in a row without a refusal: its last request named the host
\* machine's address in the header and used up an attempt of that address,
\* while the entry of its own address is locked.
C40_Witness ==
    /\ last.op = "auth"
    /\ nextToken = 1
    /\ last.remoteAddress = "192.168.1.20"
    /\ last.xff = <<"127.0.0.1">>
    /\ Mismatch(last.ret)
    /\ hist.streak["192.168.1.20"] > MAX_ATTEMPTS
    /\ IsLocked(attemptTracker["192.168.1.20"], now)
    /\ attemptTracker["127.0.0.1"].count > 0

(***************************************************************************)
(* Properties of the session lifecycle.                                    *)
(***************************************************************************)
\* C5: a token from createSession validates as true while its age is at most
\* 24 h and as false once its age exceeds 24 h, sweep or no sweep (tokens
\* removed by a logout aside).
C5_SessionValidWithinTTL ==
    \A token \in Tokens :
        (hist.issuedAt[token] >= 0 /\ token \notin hist.loggedOut) =>
            (validateSession(sessions, token, now).ret
                <=> now - hist.issuedAt[token] <= 24 * 60 * 60 * 1000)

\* An expired token that was never logged out has just been looked up.
C5_Witness ==
    /\ last.op = "check"
    /\ last.token # NoToken
    /\ hist.issuedAt[last.token] >= 0
    /\ last.token \notin hist.loggedOut
    /\ ~last.authenticated
    /\ \E token \in Tokens : validateSession(sessions, token, now).ret

\* C6: removeSession(token) makes the token invalid at once, a second call
\* changes nothing and returns false, and no other session's validity changes.
C6_RemoveSessionIdempotent ==
    \A token \in Tokens \cup {NoToken} :
        LET r1 == removeSession(sessions, token)
            r2 == removeSession(r1.sessions, token)
        IN  /\ ~validateSession(r1.sessions, token, now).ret
            /\ r2.sessions = r1.sessions
            /\ ~r2.ret
            /\ \A other \in Tokens \ {token} :
                   /\ r1.sessions[other] = sessions[other]
                   /\ validateSession(r1.sessions, other, now).ret
                          = validateSession(sessions, other, now).ret

\* A token that a logout had removed has been logged out a second time while
\* another session is still valid.
C6_Witness ==
    /\ last.op = "logout"
    /\ last.token \in hist.loggedOut
    /\ ~last.removed
    /\ now - hist.issuedAt[last.token] <= SESSION_DURATION
    /\ \E other \in Tokens \ {last.token} : validateSession(sessions, other, now).ret
====
